---- MODULE Spec2Model ----
(***************************************************************************)
(* Model of the BLE HID bridge (hid_ble_bridge.py): the report resolver,   *)
(* the decode engine with its module-level tracking state, the hold        *)
(* classifier / trigger matcher and the connection lifecycle's cleanup.    *)
(*                                                                         *)
(* Time is counted in tenths of a second.  Keycodes are the Linux input    *)
(* event codes that evdev's ecodes gives to the names used by the tables.  *)
(***************************************************************************)
EXTENDS Integers, Sequences, FiniteSets, TLC

(***************************************************************************)
(* Bounds of the model.                                                    *)
(***************************************************************************)
\* the clock stops advancing at MaxTime (tenths of a second)
MaxTime == 5
\* report-definition tables of the resolver specification hold ids 1..MaxReportId
MaxReportId == 2

(***************************************************************************)
(* Keycodes (evdev ecodes) named by the bridge's tables.                   *)
(***************************************************************************)
KEY_A == 30
KEY_LEFTCTRL == 29
KEY_LEFTSHIFT == 42
KEY_LEFTALT == 56
KEY_LEFTMETA == 125
KEY_RIGHTCTRL == 97
KEY_RIGHTSHIFT == 54
KEY_RIGHTALT == 100
KEY_RIGHTMETA == 126
KEY_VOLUMEUP == 115
KEY_VOLUMEDOWN == 114
KEY_POWER == 116
KEY_SLEEP == 142
KEY_WAKEUP == 143

\* MIN_HOLD_DURATION = 0.5 s, in tenths of a second
MIN_HOLD_DURATION == 5
MOUSE_MIN_MOVEMENT_THRESHOLD == 2
MIN_SAMPLES_FOR_CONFIDENCE == 3

\* Python's None
None == "None"

(***************************************************************************)
(* Generic helpers.                                                        *)
(***************************************************************************)
Range(f) == {f[x] : x \in DOMAIN f}

\* all the orders in which a finite set can be iterated
Orders(S) ==
    {q \in [1..Cardinality(S) -> S] : \A i, j \in 1..Cardinality(S) : q[i] = q[j] => i = j}

\* d[k] = v on a dict held as a function
DictSet(d, k, v) == [x \in DOMAIN d \cup {k} |-> IF x = k THEN v ELSE d[x]]

\* del d[k]
DictDel(d, k) == [x \in DOMAIN d \ {k} |-> d[x]]

\* the empty dict
EmptyDict == [x \in {} |-> 0]

\* value & (1 << bit) != 0
BitSet(value, bit) == (value \div (2 ^ bit)) % 2 = 1

\* payload[a:b] with 0-based Python indices, clipped at the end of the payload
Slice(s, a, b) ==
    LET hi == IF b < Len(s) THEN b ELSE Len(s)
    IN  IF a >= hi THEN <<>> ELSE [i \in 1..(hi - a) |-> s[a + i]]

\* int.from_bytes(bs, "little")
RECURSIVE FromBytesLE(_)
FromBytesLE(bs) ==
    IF bs = <<>> THEN 0 ELSE bs[1] + 256 * FromBytesLE(Tail(bs))

\* int.from_bytes(bs, "little", signed=True)
FromBytesLESigned(bs) ==
    LET u == FromBytesLE(bs)
        m == 256 ^ Len(bs)
    IN  IF bs # <<>> /\ u >= m \div 2 THEN u - m ELSE u

Abs(x) == IF x < 0 THEN -x ELSE x

(***************************************************************************)
(* The bridge's lookup tables, restricted to the usages the modelled       *)
(* payloads carry (every other usage of a payload is unmapped).            *)
(***************************************************************************)
USAGE_TO_EVKEY == (4 :> KEY_A)

MEDIA_USAGE_TO_EVKEY == (233 :> KEY_VOLUMEUP) @@ (234 :> KEY_VOLUMEDOWN)

SYSTEM_BITS_TO_EVKEY == <<KEY_POWER, KEY_SLEEP, KEY_WAKEUP>>

MOD_BITS_TO_EVKEY ==
    <<KEY_LEFTCTRL, KEY_LEFTSHIFT, KEY_LEFTALT, KEY_LEFTMETA,
      KEY_RIGHTCTRL, KEY_RIGHTSHIFT, KEY_RIGHTALT, KEY_RIGHTMETA>>

KEYCODE_TO_NAME ==
    (KEY_A :> "KEY_A") @@ (KEY_LEFTCTRL :> "KEY_LEFTCTRL")
    @@ (KEY_LEFTSHIFT :> "KEY_LEFTSHIFT") @@ (KEY_LEFTALT :> "KEY_LEFTALT")
    @@ (KEY_LEFTMETA :> "KEY_LEFTMETA") @@ (KEY_RIGHTCTRL :> "KEY_RIGHTCTRL")
    @@ (KEY_RIGHTSHIFT :> "KEY_RIGHTSHIFT") @@ (KEY_RIGHTALT :> "KEY_RIGHTALT")
    @@ (KEY_RIGHTMETA :> "KEY_RIGHTMETA") @@ (KEY_VOLUMEUP :> "KEY_VOLUMEUP")
    @@ (KEY_POWER :> "KEY_POWER") @@ (KEY_SLEEP :> "KEY_SLEEP")
    @@ (KEY_WAKEUP :> "KEY_WAKEUP")

NAME_TO_KEYCODE == [n \in Range(KEYCODE_TO_NAME) |->
                       CHOOSE c \in DOMAIN KEYCODE_TO_NAME : KEYCODE_TO_NAME[c] = n]


(***************************************************************************)
(* Report resolver.  A definition table is a function from report ids to   *)
(* [type, size_bytes]; its ids are visited in increasing order.            *)
(***************************************************************************)
\* the value resolve_report_definition returns for None
Unresolved ==
    [resolved |-> FALSE, report_id |-> 0, type |-> "none", size_bytes |-> 0,
     payload |-> <<>>, id_included |-> FALSE, reason |-> "none"]

\* mutant: any definition that is not longer than the payload is a candidate
LengthMatchesPrefix(defs, data) == {rid \in DOMAIN defs : Len(data) >= defs[rid].size_bytes}

\* the candidates collected by the loop over report_definitions.items()
LengthMatches(defs, data) == {rid \in DOMAIN defs : Len(data) = defs[rid].size_bytes}

\* mutant: the first candidate is taken when several have the payload's length
ResolveFirstCandidate(defs, data) ==
    LET matches == LengthMatches(defs, data)
    IN  IF matches = {} THEN Unresolved
        ELSE LET rid == CHOOSE r \in matches : \A q \in matches : r <= q
             IN  [resolved |-> TRUE, report_id |-> rid, type |-> defs[rid].type,
                  size_bytes |-> defs[rid].size_bytes, payload |-> data,
                  id_included |-> FALSE, reason |-> "length"]

resolve_report_definition(defs, data) ==
    IF DOMAIN defs = {} THEN Unresolved
    ELSE LET matches == LengthMatches(defs, data)
         IN  IF Cardinality(matches) = 1
             THEN LET rid == CHOOSE r \in matches : TRUE
                  IN  [resolved |-> TRUE, report_id |-> rid, type |-> defs[rid].type,
                       size_bytes |-> defs[rid].size_bytes, payload |-> data,
                       id_included |-> FALSE, reason |-> "length"]
             ELSE Unresolved

\* mutant: 6-byte payloads are taken for keyboard reports
FallbackTypeSixIsKeyboard(data_len) ==
    IF data_len \in {2, 3} THEN "consumer"
    ELSE IF data_len \in {6, 8, 9} THEN "keyboard"
    ELSE IF data_len = 1 THEN "system"
    ELSE IF data_len \in {4, 5, 7} THEN "mouse"
    ELSE "unknown"

\* the fixed-size heuristics of decode_hid_report_and_inject
FallbackType(data_len) ==
    IF data_len \in {2, 3} THEN "consumer"
    ELSE IF data_len \in {8, 9} THEN "keyboard"
    ELSE IF data_len = 1 THEN "system"
    ELSE IF data_len \in {4, 5, 6, 7} THEN "mouse"
    ELSE "unknown"

(***************************************************************************)
(* Trigger rules and the hold classifier.                                  *)
(***************************************************************************)
\* the rule table loaded from the trigger file: (event_keys, event_value, command)
RuleTable ==
    << [keys |-> <<"KEY_A">>, value |-> 1, command |-> "a-short"],
       [keys |-> <<"KEY_A">>, value |-> 2, command |-> "a-hold"],
       [keys |-> <<"KEY_A">>, value |-> 0, command |-> "a-release"],
       [keys |-> <<"KEY_A", "KEY_LEFTSHIFT">>, value |-> 1, command |-> "a-shift-short"],
       [keys |-> <<"KEY_VOLUMEUP">>, value |-> 1, command |-> "vol-short"],
       [keys |-> <<"KEY_VOLUMEUP">>, value |-> 2, command |-> "vol-hold"],
       [keys |-> <<"KEY_POWER">>, value |-> 0, command |-> "power-release"] >>

\* a rule file whose first two lines name the same key and value without modifiers
TieTable ==
    << [keys |-> <<"KEY_A">>, value |-> 1, command |-> "tie-first"],
       [keys |-> <<"KEY_A">>, value |-> 1, command |-> "tie-second"],
       [keys |-> <<"KEY_A", "KEY_LEFTCTRL">>, value |-> 0, command |-> "a-ctrl-release"] >>

\* a rule file with a modifier name that evdev does not know
BogusTable ==
    << [keys |-> <<"KEY_A">>, value |-> 1, command |-> "a-short"],
       [keys |-> <<"KEY_A", "KEY_BOGUS">>, value |-> 1, command |-> "bogus-mod"] >>

\* a rule file that gives the release of volume-up two commands
LoopRules ==
    << [keys |-> <<"KEY_VOLUMEUP">>, value |-> 1, command |-> "vol-short"],
       [keys |-> <<"KEY_VOLUMEUP">>, value |-> 2, command |-> "vol-hold"],
       [keys |-> <<"KEY_VOLUMEUP">>, value |-> 0, command |-> "vol-release"] >>

\* the commands of the rule files in Python's string order
CommandsSorted ==
    <<"a-ctrl-release", "a-hold", "a-release", "a-shift-short", "a-short", "bogus-mod",
      "power-release", "tie-first", "tie-second", "vol-hold", "vol-release", "vol-short">>

CommandRank(c) == CHOOSE i \in 1..Len(CommandsSorted) : CommandsSorted[i] = c

\* (n1, c1) < (n2, c2) on Python tuples
TupleLess(a, b) ==
    \/ a[1] < b[1]
    \/ a[1] = b[1] /\ CommandRank(a[2]) < CommandRank(b[2])

\* required_modifier_codes of one rule: names unknown to NAME_TO_KEYCODE are dropped
RequiredModifierCodes(rule) ==
    {NAME_TO_KEYCODE[rule.keys[i]] :
        i \in {j \in 2..Len(rule.keys) : rule.keys[j] \in DOMAIN NAME_TO_KEYCODE}}

match_trigger(rules, keycode, value, active_modifiers) ==
    IF keycode \notin DOMAIN KEYCODE_TO_NAME THEN None
    ELSE LET matches ==
                 {<<Cardinality(RequiredModifierCodes(rules[i])), rules[i].command>> :
                     i \in {j \in 1..Len(rules) :
                              /\ rules[j].value = value
                              /\ rules[j].keys[1] = KEYCODE_TO_NAME[keycode]
                              /\ RequiredModifierCodes(rules[j]) \subseteq active_modifiers}}
         IN  IF matches = {} THEN None
             ELSE (CHOOSE m \in matches : \A o \in matches : o = m \/ TupleLess(o, m))[2]

Action(kind, code, arg) == [kind |-> kind, code |-> code, arg |-> arg]

\* commands_to_execute.append(command) when match_trigger found one
AppendCommand(cmds, command) == IF command = None THEN cmds ELSE Append(cmds, command)

\* mutant: a hold also evaluates the short-press value
HandleReleaseBothValues(rules, now_t, keycode, press_times, active_modifiers, acts) ==
    IF keycode \in DOMAIN press_times
    THEN LET hold_duration == now_t - press_times[keycode]
             value == IF hold_duration >= MIN_HOLD_DURATION THEN 2 ELSE 1
             c0 == AppendCommand(<<>>, match_trigger(rules, keycode, value, active_modifiers))
             c1 == IF value = 2
                   THEN AppendCommand(c0, match_trigger(rules, keycode, 1, active_modifiers))
                   ELSE c0
             c2 == AppendCommand(c1, match_trigger(rules, keycode, 0, active_modifiers))
         IN  [press_times |-> DictDel(press_times, keycode),
              actions |-> Append(acts, Action("Held", keycode, <<value, hold_duration>>)),
              commands |-> c2]
    ELSE [press_times |-> press_times, actions |-> acts, commands |-> <<>>]

\* mutant: the press time stays in the dict after the classification
HandleReleaseKeepsTime(rules, now_t, keycode, press_times, active_modifiers, acts) ==
    IF keycode \in DOMAIN press_times
    THEN LET hold_duration == now_t - press_times[keycode]
             value == IF hold_duration >= MIN_HOLD_DURATION THEN 2 ELSE 1
             c1 == AppendCommand(<<>>, match_trigger(rules, keycode, value, active_modifiers))
             c2 == AppendCommand(c1, match_trigger(rules, keycode, 0, active_modifiers))
         IN  [press_times |-> press_times,
              actions |-> Append(acts, Action("Held", keycode, <<value, hold_duration>>)),
              commands |-> c2]
    ELSE [press_times |-> press_times, actions |-> acts, commands |-> <<>>]

\* returns the press-time dict, the action list and the commands of one release
handle_key_release_triggers(rules, now_t, keycode, press_times, active_modifiers, acts) ==
    IF keycode \in DOMAIN press_times
    THEN LET hold_duration == now_t - press_times[keycode]
             value == IF hold_duration >= MIN_HOLD_DURATION THEN 2 ELSE 1
             c1 == AppendCommand(<<>>, match_trigger(rules, keycode, value, active_modifiers))
             c2 == AppendCommand(c1, match_trigger(rules, keycode, 0, active_modifiers))
         IN  [press_times |-> DictDel(press_times, keycode),
              actions |-> Append(acts, Action("Held", keycode, <<value, hold_duration>>)),
              commands |-> c2]
    ELSE [press_times |-> press_times, actions |-> acts, commands |-> <<>>]

(***************************************************************************)
(* Decode engine.  The operators below work on a record st that holds the  *)
(* module-level tracking state of the bridge together with the action      *)
(* list, the command list and the sink calls of the notification being     *)
(* decoded:                                                                *)
(*   ui, rules, now            read only                                   *)
(*   key_states, key_press_times, current_modifiers                        *)
(*   media_pressed_by_source, media_press_times                            *)
(*   system_pressed_by_source, system_press_times                          *)
(*   observed_mouse_lengths                                                *)
(*   actions, commands, sink                                               *)
(*   effective_len, recorded   what the mouse branch decided               *)
(*   fail_at, raised           the sink call that raises (0: none), and    *)
(*                             whether it did: the rest of the handler is  *)
(*                             then skipped                                *)
(* The per-source dicts are total functions over Sources: the code reads   *)
(* d[source] only after d.setdefault(source, set()), so an absent key and  *)
(* an empty set behave alike.                                              *)
(***************************************************************************)
AddAction(st, a) == IF st.raised THEN st ELSE [st EXCEPT !.actions = Append(@, a)]

\* the statements after a call that may raise: skipped once it raised
After(s, t) == IF s.raised THEN s ELSE t

\* ui.write(...); ui.syn(): the call numbered fail_at raises and delivers nothing
SinkCall(st, call) ==
    IF st.fail_at = Len(st.sink) + 1
    THEN [st EXCEPT !.raised = TRUE]
    ELSE [st EXCEPT !.sink = Append(@, call)]

\* mutant: press writes to the sink without testing ui
PressWithoutSinkTest(st, keycode) == SinkCall(st, Action("press", keycode, <<>>))

\* press(ui, keycode): nothing reaches the sink when ui is None
press(st, keycode) ==
    IF st.ui THEN SinkCall(st, Action("press", keycode, <<>>)) ELSE st

\* release(ui, keycode)
release(st, keycode) ==
    IF st.ui THEN SinkCall(st, Action("release", keycode, <<>>)) ELSE st

\* inject_mouse_event(ui, buttons, x, y, scroll)
inject_mouse_event(st, buttons, x, y, scroll) ==
    IF st.ui THEN SinkCall(st, Action("motion", buttons, <<x, y, scroll>>)) ELSE st

\* ---- mouse ----
\* Counter(seen_lengths).most_common(1)[0][0]: every length of the set counts once,
\* so the first length in the set's iteration order is returned; for lengths below
\* 8 CPython iterates a set of small integers in increasing order
MostCommon(seen_lengths) == CHOOSE l \in seen_lengths : \A o \in seen_lengths : l <= o

EffectiveLen(seen_lengths, current_len) ==
    IF Cardinality(seen_lengths) = 1 /\ (\A l \in seen_lengths : l >= 4)
    THEN CHOOSE l \in seen_lengths : TRUE
    ELSE IF Cardinality(seen_lengths) >= MIN_SAMPLES_FOR_CONFIDENCE
    THEN MostCommon(seen_lengths)
    ELSE IF current_len \in {4, 5, 6} THEN current_len ELSE 5

DecodeMouse(st, source, payload) ==
    LET current_len == Len(payload)
        x == IF current_len >= 3 THEN FromBytesLESigned(Slice(payload, 1, 3)) ELSE 0
        y == IF current_len >= 4 THEN FromBytesLESigned(Slice(payload, 2, 4)) ELSE 0
        meaningful_movement ==
            Abs(x) >= MOUSE_MIN_MOVEMENT_THRESHOLD \/ Abs(y) >= MOUSE_MIN_MOVEMENT_THRESHOLD
        seen_lengths ==
            IF meaningful_movement
            THEN st.observed_mouse_lengths[source] \cup {current_len}
            ELSE st.observed_mouse_lengths[source]
        effective_len == EffectiveLen(seen_lengths, current_len)
        \* payload[0] of an empty payload raises: DecodeRaises covers that case
        buttons == IF effective_len >= 1 /\ current_len >= 1 THEN payload[1] ELSE 0
        x_mov == IF effective_len >= 2 THEN FromBytesLESigned(Slice(payload, 1, 2)) ELSE 0
        y_mov == IF effective_len >= 3 THEN FromBytesLESigned(Slice(payload, 2, 3)) ELSE 0
        scroll == IF effective_len >= 4 THEN FromBytesLESigned(Slice(payload, 3, 4)) ELSE 0
        st1 == [st EXCEPT !.observed_mouse_lengths[source] = seen_lengths,
                          !.effective_len = effective_len,
                          !.recorded = meaningful_movement]
    IN  AddAction(inject_mouse_event(st1, buttons, x_mov, y_mov, scroll),
                  Action("Mouse", buttons, <<x_mov, y_mov, scroll>>))

\* ---- consumer / media keys ----
RECURSIVE MediaReleaseLoop(_, _)
MediaReleaseLoop(st, to_release) ==
    IF to_release = <<>> \/ st.raised THEN st
    ELSE LET keycode == Head(to_release)
             s1 == AddAction(release(st, keycode), Action("Released", keycode, <<>>))
             h == handle_key_release_triggers(st.rules, st.now, keycode,
                      s1.media_press_times, s1.current_modifiers, s1.actions)
             s2 == After(s1, [s1 EXCEPT !.media_press_times = h.press_times,
                                        !.actions = h.actions,
                                        !.commands = @ \o h.commands])
         IN  MediaReleaseLoop(s2, Tail(to_release))

\* mutant: a mapped usage is pressed whether or not its keycode is already down
DecodeConsumerRepress(st, source, payload, order) ==
    IF Len(payload) >= 2
    THEN LET usage == FromBytesLE(Slice(payload, 0, 2))
         IN  IF usage \in DOMAIN MEDIA_USAGE_TO_EVKEY /\ usage # 0
             THEN LET keycode == MEDIA_USAGE_TO_EVKEY[usage]
                  IN  AddAction(
                        [press(st, keycode) EXCEPT
                            !.media_pressed_by_source[source] = @ \cup {keycode},
                            !.media_press_times = DictSet(@, keycode, st.now)],
                        Action("Pressed", keycode, <<>>))
             ELSE IF usage = 0
             THEN [MediaReleaseLoop(st, order) EXCEPT !.media_pressed_by_source[source] = {}]
             ELSE AddAction(st, Action("Unknown media usage", usage, <<>>))
    ELSE AddAction(st, Action("Consumer report too short", 0, <<>>))

\* order: the iteration order of list(media_pressed_by_source[source])
DecodeConsumer(st, source, payload, order) ==
    IF Len(payload) >= 2
    THEN LET usage == FromBytesLE(Slice(payload, 0, 2))
         IN  IF usage \in DOMAIN MEDIA_USAGE_TO_EVKEY /\ usage # 0
             THEN LET keycode == MEDIA_USAGE_TO_EVKEY[usage]
                  IN  IF keycode \notin st.media_pressed_by_source[source]
                      THEN After(press(st, keycode),
                             AddAction(
                               [press(st, keycode) EXCEPT
                                   !.media_pressed_by_source[source] = @ \cup {keycode},
                                   !.media_press_times = DictSet(@, keycode, st.now)],
                               Action("Pressed", keycode, <<>>)))
                      ELSE st
             ELSE IF usage = 0
             THEN After(MediaReleaseLoop(st, order),
                        [MediaReleaseLoop(st, order) EXCEPT
                            !.media_pressed_by_source[source] = {}])
             ELSE AddAction(st, Action("Unknown media usage", usage, <<>>))
    ELSE AddAction(st, Action("Consumer report too short", 0, <<>>))

\* ---- system control ----
RECURSIVE SystemLoop(_, _, _, _)
SystemLoop(st, source, value, bit) ==
    IF bit > 2 \/ st.raised THEN st
    ELSE LET keycode == SYSTEM_BITS_TO_EVKEY[bit + 1]
             s1 == IF BitSet(value, bit)
                   THEN IF keycode \notin st.system_pressed_by_source[source]
                        THEN After(press(st, keycode),
                               AddAction(
                                 [press(st, keycode) EXCEPT
                                     !.system_pressed_by_source[source] = @ \cup {keycode},
                                     !.system_press_times = DictSet(@, keycode, st.now)],
                                 Action("Pressed", keycode, <<>>)))
                        ELSE st
                   ELSE IF keycode \in st.system_pressed_by_source[source]
                        THEN LET r == AddAction(
                                        [release(st, keycode) EXCEPT
                                            !.system_pressed_by_source[source] = @ \ {keycode}],
                                        Action("Released", keycode, <<>>))
                                 h == handle_key_release_triggers(st.rules, st.now, keycode,
                                          r.system_press_times, r.current_modifiers, r.actions)
                             IN  After(release(st, keycode),
                                       [r EXCEPT !.system_press_times = h.press_times,
                                                 !.actions = h.actions,
                                                 !.commands = @ \o h.commands])
                        ELSE st
         IN  SystemLoop(s1, source, value, bit + 1)

DecodeSystem(st, source, payload) ==
    SystemLoop(st, source, IF Len(payload) >= 1 THEN payload[1] ELSE 0, 0)

\* ---- keyboard ----
\* the keycodes of USAGE_TO_EVKEY.values()
NormalKeys == Range(USAGE_TO_EVKEY)

\* next(u for u, e in USAGE_TO_EVKEY.items() if e == keycode): the first usage, in
\* the table's (increasing) order, that maps to keycode
UsageOf(keycode) ==
    CHOOSE u \in DOMAIN USAGE_TO_EVKEY :
        /\ USAGE_TO_EVKEY[u] = keycode
        /\ \A o \in DOMAIN USAGE_TO_EVKEY : USAGE_TO_EVKEY[o] = keycode => u <= o

\* {k for k in payload[keys_start:keys_start + num_keys] if k != 0}
PressedUsages(payload, keys_start) ==
    {b \in Range(Slice(payload, keys_start, keys_start + 6)) : b # 0}

\* mutant: a set modifier bit presses its key on every report
RECURSIVE ModifierLoopRepress(_, _, _)
ModifierLoopRepress(st, modifiers_byte, bit) ==
    IF bit > 7 THEN st
    ELSE LET keycode == MOD_BITS_TO_EVKEY[bit + 1]
             s1 == IF BitSet(modifiers_byte, bit)
                   THEN AddAction([press(st, keycode) EXCEPT
                                      !.current_modifiers = @ \cup {keycode},
                                      !.key_states = @ \cup {keycode}],
                                  Action("Pressed", keycode, <<>>))
                   ELSE IF keycode \in st.key_states
                        THEN AddAction([release(st, keycode) EXCEPT
                                           !.key_states = @ \ {keycode}],
                                       Action("Released", keycode, <<>>))
                        ELSE st
         IN  ModifierLoopRepress(s1, modifiers_byte, bit + 1)

RECURSIVE ModifierLoop(_, _, _)
ModifierLoop(st, modifiers_byte, bit) ==
    IF bit > 7 \/ st.raised THEN st
    ELSE LET keycode == MOD_BITS_TO_EVKEY[bit + 1]
             s1 == IF BitSet(modifiers_byte, bit)
                   THEN LET a == [st EXCEPT !.current_modifiers = @ \cup {keycode}]
                        IN  IF keycode \notin a.key_states
                            THEN After(press(a, keycode),
                                       AddAction([press(a, keycode) EXCEPT
                                                     !.key_states = @ \cup {keycode}],
                                                 Action("Pressed", keycode, <<>>)))
                            ELSE a
                   ELSE IF keycode \in st.key_states
                        THEN After(release(st, keycode),
                                   AddAction([release(st, keycode) EXCEPT
                                                 !.key_states = @ \ {keycode}],
                                             Action("Released", keycode, <<>>)))
                        ELSE st
         IN  ModifierLoop(s1, modifiers_byte, bit + 1)

\* the body of "if usage not in pressed_usages": the press time is deleted before
\* handle_key_release_triggers is given the dict
KeyRelease(st, keycode) ==
    LET r == AddAction(
                 [release(st, keycode) EXCEPT
                     !.key_states = @ \ {keycode},
                     !.key_press_times =
                         IF keycode \in DOMAIN @ THEN DictDel(@, keycode) ELSE @],
                 Action("Released", keycode, <<>>))
        h == handle_key_release_triggers(st.rules, st.now, keycode,
                 r.key_press_times, r.current_modifiers, r.actions)
    IN  After(release(st, keycode),
              [r EXCEPT !.key_press_times = h.press_times,
                        !.actions = h.actions,
                        !.commands = @ \o h.commands])

\* for keycode in list(key_states), restricted to the normal keys the loop acts on
RECURSIVE ReleaseLoop(_, _, _)
ReleaseLoop(st, held, pressed_usages) ==
    IF held = <<>> \/ st.raised THEN st
    ELSE LET keycode == Head(held)
             s1 == IF keycode \in NormalKeys /\ UsageOf(keycode) \notin pressed_usages
                   THEN KeyRelease(st, keycode)
                   ELSE st
         IN  ReleaseLoop(s1, Tail(held), pressed_usages)

\* mutant: the loop ends at the first usage without a keycode
RECURSIVE PressLoopStopsAtUnknown(_, _)
PressLoopStopsAtUnknown(st, usages) ==
    IF usages = <<>> THEN st
    ELSE IF Head(usages) \notin DOMAIN USAGE_TO_EVKEY
    THEN AddAction(st, Action("Unknown keyboard usage", Head(usages), <<>>))
    ELSE LET keycode == USAGE_TO_EVKEY[Head(usages)]
             s1 == IF keycode \notin st.key_states
                   THEN AddAction(
                          [press(st, keycode) EXCEPT
                              !.key_states = @ \cup {keycode},
                              !.key_press_times = DictSet(@, keycode, st.now)],
                          Action("Pressed", keycode, <<>>))
                   ELSE st
         IN  PressLoopStopsAtUnknown(s1, Tail(usages))

\* for usage in pressed_usages
RECURSIVE PressLoop(_, _)
PressLoop(st, usages) ==
    IF usages = <<>> \/ st.raised THEN st
    ELSE LET usage == Head(usages)
             s1 == IF usage \in DOMAIN USAGE_TO_EVKEY
                   THEN LET keycode == USAGE_TO_EVKEY[usage]
                        IN  IF keycode \notin st.key_states
                            THEN After(press(st, keycode),
                                   AddAction(
                                     [press(st, keycode) EXCEPT
                                         !.key_states = @ \cup {keycode},
                                         !.key_press_times = DictSet(@, keycode, st.now)],
                                     Action("Pressed", keycode, <<>>)))
                            ELSE st
                   ELSE AddAction(st, Action("Unknown keyboard usage", usage, <<>>))
         IN  PressLoop(s1, Tail(usages))

\* mutant: the report id stays in front of a 9-byte payload
KeyboardPayloadKeepsId(payload) == payload

\* a 9-byte payload loses its first byte
KeyboardPayload(payload) == IF Len(payload) = 9 THEN Tail(payload) ELSE payload

\* held_order: iteration order of the normal keys of key_states;
\* usage_order: iteration order of pressed_usages
DecodeKeyboard(st, payload0, held_order, usage_order) ==
    LET payload == KeyboardPayload(payload0)
    IN  IF Len(payload) \notin {6, 8}
        THEN AddAction(st, Action("Keyboard report unexpected length", Len(payload), <<>>))
        ELSE LET modifiers_byte == IF Len(payload) = 8 THEN payload[1] ELSE 0
                 keys_start == IF Len(payload) = 8 THEN 2 ELSE 0
                 pressed_usages == PressedUsages(payload, keys_start)
                 s0 == [st EXCEPT !.current_modifiers = {}]
                 s1 == IF Len(payload) >= 8 THEN ModifierLoop(s0, modifiers_byte, 0) ELSE s0
                 s2 == ReleaseLoop(s1, held_order, pressed_usages)
             IN  PressLoop(s2, usage_order)

\* ---- the whole handler ----
\* the report category and payload chosen before the category branches run
Categorize(defs, data, explicit_report_type) ==
    IF explicit_report_type # None
    THEN [report_type |-> explicit_report_type, payload |-> data, report_id |-> None,
          resolve_called |-> FALSE, resolved |-> FALSE, resolve_reason |-> "explicit"]
    ELSE LET resolved == resolve_report_definition(defs, data)
         IN  IF resolved.resolved
             THEN [report_type |-> resolved.type, payload |-> resolved.payload,
                   report_id |-> ToString(resolved.report_id),
                   resolve_called |-> TRUE, resolved |-> TRUE,
                   resolve_reason |-> resolved.reason]
             ELSE [report_type |-> FallbackType(Len(data)), payload |-> data,
                   report_id |-> None, resolve_called |-> TRUE, resolved |-> FALSE,
                   resolve_reason |-> "none"]

\* buttons = payload[0] raises IndexError when a mouse report has no byte
DecodeRaises(report_type, payload) == report_type = "mouse" /\ Len(payload) = 0

\* the sets whose iteration order the handler depends on
HeldToIterate(st, source, cat) ==
    IF cat.report_type = "keyboard" THEN st.key_states \cap NormalKeys
    ELSE IF cat.report_type = "consumer" /\ Len(cat.payload) >= 2
            /\ FromBytesLE(Slice(cat.payload, 0, 2)) = 0
    THEN st.media_pressed_by_source[source]
    ELSE {}

UsagesToIterate(cat) ==
    IF cat.report_type = "keyboard" /\ Len(KeyboardPayload(cat.payload)) \in {6, 8}
    THEN PressedUsages(KeyboardPayload(cat.payload),
                       IF Len(KeyboardPayload(cat.payload)) = 8 THEN 2 ELSE 0)
    ELSE {}

decode_hid_report_and_inject(st, defs, source, data, explicit_report_type, held_order, usage_order) ==
    LET cat == Categorize(defs, data, explicit_report_type)
        s0 == [st EXCEPT !.actions = <<>>, !.commands = <<>>, !.sink = <<>>]
    IN  IF DecodeRaises(cat.report_type, cat.payload) THEN s0
        ELSE IF cat.report_type = "mouse" THEN DecodeMouse(s0, source, cat.payload)
        ELSE IF cat.report_type = "consumer"
        THEN DecodeConsumer(s0, source, cat.payload, held_order)
        ELSE IF cat.report_type = "keyboard"
        THEN DecodeKeyboard(s0, cat.payload, held_order, usage_order)
        ELSE IF cat.report_type = "system" THEN DecodeSystem(s0, source, cat.payload)
        ELSE AddAction(s0, Action("Unsupported report type", Len(data), <<>>))

(***************************************************************************)
(* The environment: the device behind the link, its report handles and the *)
(* notification payloads it sends.                                         *)
(***************************************************************************)
\* f"HID-{handle}" of the two report characteristics of the device
Sources == {"HID-1", "HID-2"}

\* the report id each handle's Report Reference descriptor names
SourceReportId == [s \in Sources |-> IF s = "HID-1" THEN 1 ELSE 2]

Devices == {"keyboard", "remote", "mouse"}

\* parse_hid_report_map(report_map) of each device: report id -> definition
ReportMap(d) ==
    IF d = "keyboard" THEN (1 :> [type |-> "keyboard", size_bytes |-> 8])
    ELSE IF d = "remote"
    THEN (1 :> [type |-> "consumer", size_bytes |-> 2])
         @@ (2 :> [type |-> "system", size_bytes |-> 1])
    ELSE (1 :> [type |-> "mouse", size_bytes |-> 4])

\* report_definitions after a failed read of the report map
NoDefinitions == [r \in {} |-> [type |-> "unknown", size_bytes |-> 0]]

Zeros(n) == [i \in 1..n |-> 0]

\* six key-usage bytes: usage 4 is KEY_A, usage 3 has no keycode
KeyArrays ==
    { Zeros(6), <<4>> \o Zeros(5), <<4, 3, 4>> \o Zeros(3) }

\* modifier bitmasks: none, left ctrl, left shift
ModifierBytes == {0, 1, 2}

KeyboardPayloads ==
    {<<m, 0>> \o k : m \in ModifierBytes, k \in KeyArrays}
    \cup KeyArrays
    \cup {<<1, 0, 0>> \o Zeros(6), <<1, 2, 0, 0, 4>> \o Zeros(4)}
    \cup {<<>>, Zeros(10)}

\* consumer usages 0, 0x00E9 (volume up), 0x1234 (unmapped), a padded consumer
\* report and the system-control bitmasks 0 and 1 (power)
RemotePayloads ==
    {<<0, 0>>, <<233, 0>>, <<52, 18>>, <<233, 0, 0>>, <<0>>, <<1>>}

MousePayloads ==
    {<<0, 5, 0, 0>>, <<1, 0, 0, 0>>, <<0, 0, 3, 0, 0>>, <<0, 255, 1, 0, 0>>,
     <<0, 0, 0, 254, 0, 0, 0>>, <<1, 5>>, <<>>}

DevicePayloads(d) ==
    IF d = "keyboard" THEN KeyboardPayloads
    ELSE IF d = "remote" THEN RemotePayloads
    ELSE MousePayloads

\* how far time.time() advances between two events (tenths of a second)
TickSteps == {2, 5}

(***************************************************************************)
(* State.                                                                  *)
(***************************************************************************)
VARIABLES
    ui,                        \* TRUE iff the uinput devices exist (no --triggers)
    triggers,                  \* the loaded rule table
    device,                    \* the device the bridge was started for
    connected,                 \* the main loop waits for events on a live link
    report_definitions,
    key_states,
    key_press_times,
    current_modifiers,
    media_pressed_by_source,
    media_press_times,
    system_pressed_by_source,
    system_press_times,
    observed_mouse_lengths,
    now,                       \* time.time()
    actions,                   \* actions of the notification decoded by the last step
    commands,                  \* commands_to_execute of that notification
    sink,                      \* press/release/motion calls of that notification
    out,                       \* how that notification was categorized
    sinkDown,                  \* keycodes whose last sink call was a press
    prev_modifiers_byte,       \* modifier byte of the connection's last 8-byte report
    rdefs, rdata, rres,        \* resolver under test: table, payload, result
    tcall,                     \* classifier under test: the last call and its result
    mouse_samples,             \* per source, how often each length was recorded
    pstate,                    \* parse_hid_report_map under test: its locals
    loop,                      \* the asyncio event loop: the decode tasks and their commands
    tfile,                     \* parse_triggers_file under test: the file and the result
    life,                      \* main(): the reconnect loop and the signals it received
    pairing                    \* le_auto_pair.py: STATE, the GLib sources and the Pair() calls

vars ==
    <<ui, triggers, device, connected, report_definitions, key_states, key_press_times,
      current_modifiers, media_pressed_by_source, media_press_times,
      system_pressed_by_source, system_press_times, observed_mouse_lengths, now,
      actions, commands, sink, out, sinkDown, prev_modifiers_byte, rdefs, rdata, rres,
      tcall, mouse_samples, pstate, loop, tfile, life, pairing>>

trackingVars ==
    <<key_states, key_press_times, current_modifiers, media_pressed_by_source,
      media_press_times, system_pressed_by_source, system_press_times>>

resolverVars == <<rdefs, rdata, rres>>

toolVars == <<loop, tfile, life, pairing>>

historyVars == <<tcall, mouse_samples, pstate, loop, tfile, life, pairing>>

\* no notification was decoded by the last step
Idle ==
    [source |-> None, explicit |-> None, data_len |-> 0, report_type |-> None,
     report_id |-> None, resolve_called |-> FALSE, resolved |-> FALSE, raised |-> FALSE,
     kb8 |-> FALSE, effective_len |-> None, recorded |-> FALSE, data |-> <<>>,
     payload |-> <<>>, sink_raised |-> FALSE]

\* the explicit_report_type main() gives the handle's notification handler
ExplicitType(defs, source) ==
    IF SourceReportId[source] \in DOMAIN defs
    THEN defs[SourceReportId[source]].type
    ELSE None

\* the module state as the record the decode operators work on
St ==
    [ui |-> ui, rules |-> triggers, now |-> now,
     key_states |-> key_states, key_press_times |-> key_press_times,
     current_modifiers |-> current_modifiers,
     media_pressed_by_source |-> media_pressed_by_source,
     media_press_times |-> media_press_times,
     system_pressed_by_source |-> system_pressed_by_source,
     system_press_times |-> system_press_times,
     observed_mouse_lengths |-> observed_mouse_lengths,
     actions |-> <<>>, commands |-> <<>>, sink |-> <<>>,
     effective_len |-> None, recorded |-> FALSE, fail_at |-> 0, raised |-> FALSE]

\* the keys down at the sink after a list of calls
RECURSIVE SinkAfter(_, _)
SinkAfter(down, calls) ==
    IF calls = <<>> THEN down
    ELSE SinkAfter(IF Head(calls).kind = "press" THEN down \cup {Head(calls).code}
                   ELSE IF Head(calls).kind = "release" THEN down \ {Head(calls).code}
                   ELSE down,
                   Tail(calls))

\* parse_hid_report_map is not running
NoParse == [done |-> TRUE, map |-> <<>>]

\* no call of the classifier was made by the last step
NoCall ==
    [op |-> None, keycode |-> 0, value |-> 0, had_time |-> FALSE, hold_duration |-> 0,
     result |-> None]

\* the payload lengths a mouse report of the modelled devices can have
MouseLengths == {Len(p) : p \in MousePayloads}

\* nothing was recorded yet
NoSamples == [s \in Sources |-> [l \in MouseLengths |-> 0]]

\* no notification task was created and no command was started
NoLoop == [tasks |-> <<>>, spawned |-> <<>>]

\* parse_triggers_file is not running
NoFile == [done |-> TRUE]

\* main() is not in its reconnect loop
NoLife == [pc |-> "off"]

\* the pairing tool is not running
NoPairing == [phase |-> "off"]

\* the module-level state before main() connects
BridgeStart ==
    /\ device \in Devices
    /\ connected = FALSE
    /\ report_definitions = NoDefinitions
    /\ key_states = {}
    /\ key_press_times = EmptyDict
    /\ current_modifiers = {}
    /\ media_pressed_by_source = [s \in Sources |-> {}]
    /\ media_press_times = EmptyDict
    /\ system_pressed_by_source = [s \in Sources |-> {}]
    /\ system_press_times = EmptyDict
    /\ observed_mouse_lengths = [s \in Sources |-> {}]
    /\ now = 0
    /\ actions = <<>>
    /\ commands = <<>>
    /\ sink = <<>>
    /\ out = Idle
    /\ sinkDown = {}
    /\ prev_modifiers_byte = 0
    /\ tcall = NoCall
    /\ mouse_samples = NoSamples
    /\ pstate = NoParse
    /\ loop = NoLoop
    /\ tfile = NoFile
    /\ life = NoLife
    /\ pairing = NoPairing

BridgeInit ==
    /\ \/ ui = TRUE /\ triggers = <<>>
       \/ ui = FALSE /\ triggers = RuleTable
    /\ BridgeStart

Init ==
    /\ BridgeInit
    /\ rdefs = NoDefinitions
    /\ rdata = <<>>
    /\ rres = Unresolved

\* the outputs of a step that decodes no notification
NoNotification ==
    /\ actions' = <<>>
    /\ commands' = <<>>
    /\ sink' = <<>>
    /\ out' = Idle

\* main(): client.connect() succeeded; the report map is read and parsed, or the
\* read fails and report_definitions = {}
Connect ==
    /\ ~connected
    /\ connected' = TRUE
    /\ report_definitions' \in {ReportMap(device), NoDefinitions}
    /\ NoNotification
    /\ UNCHANGED <<ui, triggers, device, now, sinkDown, prev_modifiers_byte,
                   observed_mouse_lengths>>
    /\ UNCHANGED trackingVars
    /\ UNCHANGED resolverVars
    /\ UNCHANGED historyVars

\* the effect of one notification on the bridge's own state; fail_at is the sink
\* call of this notification that raises (0: none does).  An exception ends the
\* task of the notification: nothing is logged and no command is executed
DecodeStep(source, data, fail_at) ==
    /\ connected
    /\ \E cat \in {Categorize(report_definitions, data,
                              ExplicitType(report_definitions, source))} :
       \E held_order \in Orders(HeldToIterate(St, source, cat)),
          usage_order \in Orders(UsagesToIterate(cat)) :
       \E r \in {decode_hid_report_and_inject([St EXCEPT !.fail_at = fail_at],
                     report_definitions, source, data,
                     ExplicitType(report_definitions, source), held_order, usage_order)} :
          /\ fail_at # 0 => r.raised
          /\ key_states' = r.key_states
          /\ key_press_times' = r.key_press_times
          /\ current_modifiers' = r.current_modifiers
          /\ media_pressed_by_source' = r.media_pressed_by_source
          /\ media_press_times' = r.media_press_times
          /\ system_pressed_by_source' = r.system_pressed_by_source
          /\ system_press_times' = r.system_press_times
          /\ observed_mouse_lengths' = r.observed_mouse_lengths
          /\ actions' = IF r.raised THEN <<>> ELSE r.actions
          /\ commands' = IF r.raised THEN <<>> ELSE r.commands
          /\ sink' = r.sink
          /\ sinkDown' = SinkAfter(sinkDown, r.sink)
          /\ prev_modifiers_byte' =
                 IF cat.report_type = "keyboard" /\ Len(KeyboardPayload(cat.payload)) = 8
                 THEN KeyboardPayload(cat.payload)[1]
                 ELSE prev_modifiers_byte
          /\ out' = [source |-> source,
                     explicit |-> ExplicitType(report_definitions, source),
                     data_len |-> Len(data), report_type |-> cat.report_type,
                     report_id |-> cat.report_id,
                     resolve_called |-> cat.resolve_called,
                     resolved |-> cat.resolved,
                     raised |-> DecodeRaises(cat.report_type, cat.payload),
                     kb8 |-> cat.report_type = "keyboard"
                             /\ Len(KeyboardPayload(cat.payload)) = 8,
                     effective_len |-> r.effective_len,
                     recorded |-> r.recorded,
                     data |-> data,
                     payload |-> cat.payload,
                     sink_raised |-> r.raised]
    /\ UNCHANGED <<ui, triggers, device, connected, report_definitions, now>>
    /\ UNCHANGED resolverVars
    /\ UNCHANGED <<tcall, pstate, tfile, life, pairing>>

\* a notification during which no sink call raises
DecodeCore(source, data) == DecodeStep(source, data, 0)

\* one notification of a handle, decoded by decode_hid_report_and_inject
Decode(source, data) ==
    /\ DecodeCore(source, data)
    /\ UNCHANGED <<mouse_samples, loop>>

\* time passes
Tick ==
    /\ \E d \in TickSteps : now + d <= MaxTime /\ now' = now + d
    /\ NoNotification
    /\ UNCHANGED <<ui, triggers, device, connected, report_definitions, sinkDown,
                   prev_modifiers_byte, observed_mouse_lengths>>
    /\ UNCHANGED trackingVars
    /\ UNCHANGED resolverVars
    /\ UNCHANGED historyVars

\* mutant: cleanup forgets key_states.clear()
CleanupKeepsKeyStates ==
    /\ connected
    /\ connected' = FALSE
    /\ media_pressed_by_source' = [s \in Sources |-> {}]
    /\ system_pressed_by_source' = [s \in Sources |-> {}]
    /\ current_modifiers' = {}
    /\ key_press_times' = EmptyDict
    /\ media_press_times' = EmptyDict
    /\ system_press_times' = EmptyDict
    /\ prev_modifiers_byte' = 0
    /\ NoNotification
    /\ UNCHANGED <<ui, triggers, device, report_definitions, now, sinkDown,
                   observed_mouse_lengths, key_states>>
    /\ UNCHANGED resolverVars
    /\ UNCHANGED historyVars

\* cleanup(client, tasks) at the end of a connection
Cleanup ==
    /\ connected
    /\ connected' = FALSE
    /\ key_states' = {}
    /\ media_pressed_by_source' = [s \in Sources |-> {}]
    /\ system_pressed_by_source' = [s \in Sources |-> {}]
    /\ current_modifiers' = {}
    /\ key_press_times' = EmptyDict
    /\ media_press_times' = EmptyDict
    /\ system_press_times' = EmptyDict
    /\ prev_modifiers_byte' = 0
    /\ NoNotification
    /\ UNCHANGED <<ui, triggers, device, report_definitions, now, sinkDown,
                   observed_mouse_lengths>>
    /\ UNCHANGED resolverVars
    /\ UNCHANGED historyVars

Next ==
    \/ Connect
    \/ \E source \in Sources : \E data \in DevicePayloads(device) : Decode(source, data)
    \/ Tick
    \/ Cleanup

Spec == Init /\ [][Next]_vars

(***************************************************************************)
(* The resolver on its own: a table and a payload are drawn, then          *)
(* resolve_report_definition is applied to them.                           *)
(***************************************************************************)
\* payloads of the resolver specification have at most MaxPayloadLen bytes
MaxPayloadLen == 4
\* its definitions have 1..MaxSizeBytes bytes
MaxSizeBytes == 2

\* byte values of those payloads: zero, the report ids 1 and 2, 0xE9 and 0xFF
ResolverBytes == {0, 1, 2, 233, 255}

ResolverPayloads == UNION {[1..n -> ResolverBytes] : n \in 0..MaxPayloadLen}

ResolverDefinitions ==
    [type : {"consumer", "keyboard"}, size_bytes : 1..MaxSizeBytes]

ResolverTables ==
    UNION {[ids -> ResolverDefinitions] : ids \in SUBSET (1..MaxReportId)}

\* rres before resolve_report_definition has returned
Pending == [Unresolved EXCEPT !.reason = "pending"]

ResolveInit ==
    /\ BridgeInit
    /\ ui = TRUE
    /\ device = "keyboard"
    /\ rdefs \in ResolverTables
    /\ rdata \in ResolverPayloads
    /\ rres = Pending

ResolveCall ==
    /\ rres = Pending
    /\ rres' = resolve_report_definition(rdefs, rdata)
    /\ UNCHANGED <<rdefs, rdata>>
    /\ UNCHANGED <<ui, triggers, device, connected, report_definitions, now, actions,
                   commands, sink, out, sinkDown, prev_modifiers_byte,
                   observed_mouse_lengths>>
    /\ UNCHANGED trackingVars
    /\ UNCHANGED historyVars

ResolveNext == ResolveCall

ResolveSpec == ResolveInit /\ [][ResolveNext]_vars

(***************************************************************************)
(* The hold classifier and the trigger matcher on their own: a rule file,  *)
(* a set of active modifiers and a clock are drawn, then press times are   *)
(* recorded and handle_key_release_triggers and match_trigger are called.  *)
(***************************************************************************)
RuleTables == {RuleTable, TieTable, BogusTable}

\* the keycodes the classifier is called for
TriggerKeys == {KEY_A, KEY_POWER}

\* the modifiers that can be active during a call
TriggerModifiers == {KEY_LEFTSHIFT, KEY_LEFTCTRL}

TriggerInit ==
    /\ ui = FALSE
    /\ triggers \in RuleTables
    /\ device = "keyboard"
    /\ connected = FALSE
    /\ report_definitions = NoDefinitions
    /\ key_states = {}
    /\ key_press_times = EmptyDict
    /\ current_modifiers \in SUBSET TriggerModifiers
    /\ media_pressed_by_source = [s \in Sources |-> {}]
    /\ media_press_times = EmptyDict
    /\ system_pressed_by_source = [s \in Sources |-> {}]
    /\ system_press_times = EmptyDict
    /\ observed_mouse_lengths = [s \in Sources |-> {}]
    /\ now = 0
    /\ actions = <<>>
    /\ commands = <<>>
    /\ sink = <<>>
    /\ out = Idle
    /\ sinkDown = {}
    /\ prev_modifiers_byte = 0
    /\ tcall = NoCall
    /\ mouse_samples = NoSamples
    /\ pstate = NoParse
    /\ loop = NoLoop
    /\ tfile = NoFile
    /\ life = NoLife
    /\ pairing = NoPairing
    /\ rdefs = NoDefinitions
    /\ rdata = <<>>
    /\ rres = Unresolved

\* what a classifier call leaves alone
TriggerFrame ==
    /\ UNCHANGED <<ui, triggers, device, connected, report_definitions, key_states,
                   current_modifiers, media_pressed_by_source, media_press_times,
                   system_pressed_by_source, system_press_times, observed_mouse_lengths,
                   now, sink, out, sinkDown, prev_modifiers_byte, mouse_samples, pstate>>
    /\ UNCHANGED resolverVars
    /\ UNCHANGED toolVars

\* key_press_times[keycode] = current_time
RecordPress(keycode) ==
    /\ key_press_times' = DictSet(key_press_times, keycode, now)
    /\ tcall' = [NoCall EXCEPT !.op = "press", !.keycode = keycode]
    /\ actions' = <<>>
    /\ commands' = <<>>
    /\ TriggerFrame

\* cmds = await handle_key_release_triggers(keycode, key_press_times, current_modifiers, actions)
ReleaseCall(keycode) ==
    /\ \E h \in {handle_key_release_triggers(triggers, now, keycode, key_press_times,
                                             current_modifiers, <<>>)} :
          /\ key_press_times' = h.press_times
          /\ actions' = h.actions
          /\ commands' = h.commands
    /\ tcall' = [op |-> "release", keycode |-> keycode, value |-> 0,
                 had_time |-> keycode \in DOMAIN key_press_times,
                 hold_duration |-> IF keycode \in DOMAIN key_press_times
                                   THEN now - key_press_times[keycode] ELSE 0,
                 result |-> None]
    /\ TriggerFrame

\* command = match_trigger(keycode, value, active_modifiers)
MatchCall(keycode, value) ==
    /\ tcall' = [op |-> "match", keycode |-> keycode, value |-> value,
                 had_time |-> FALSE, hold_duration |-> 0,
                 result |-> match_trigger(triggers, keycode, value, current_modifiers)]
    /\ actions' = <<>>
    /\ commands' = <<>>
    /\ UNCHANGED key_press_times
    /\ TriggerFrame

\* time passes between two calls
TriggerTick ==
    /\ \E d \in TickSteps : now + d <= MaxTime /\ now' = now + d
    /\ tcall' = NoCall
    /\ actions' = <<>>
    /\ commands' = <<>>
    /\ UNCHANGED <<ui, triggers, device, connected, report_definitions, key_states,
                   key_press_times, current_modifiers, media_pressed_by_source,
                   media_press_times, system_pressed_by_source, system_press_times,
                   observed_mouse_lengths, sink, out, sinkDown, prev_modifiers_byte,
                   mouse_samples, pstate>>
    /\ UNCHANGED resolverVars
    /\ UNCHANGED toolVars

TriggerNext ==
    \/ \E keycode \in TriggerKeys : RecordPress(keycode)
    \/ \E keycode \in TriggerKeys : ReleaseCall(keycode)
    \/ \E keycode \in TriggerKeys : \E value \in 0..2 : MatchCall(keycode, value)
    \/ TriggerTick

TriggerSpec == TriggerInit /\ [][TriggerNext]_vars

(***************************************************************************)
(* The bridge in front of a mouse, with the history of the lengths that    *)
(* the mouse branch recorded.                                              *)
(***************************************************************************)
\* at most MaxSamples lengths are recorded for one source
MaxSamples == 4

RECURSIVE SumOver(_, _)
SumOver(f, S) ==
    IF S = {} THEN 0
    ELSE LET x == CHOOSE y \in S : TRUE IN f[x] + SumOver(f, S \ {x})

\* how many lengths were recorded for a source
TotalSamples(source) == SumOver(mouse_samples[source], MouseLengths)

MouseInit ==
    /\ BridgeInit
    /\ ui = TRUE
    /\ device = "mouse"
    /\ rdefs = NoDefinitions
    /\ rdata = <<>>
    /\ rres = Unresolved

\* one notification of the mouse; observed_mouse_lengths[source].add(current_len) is
\* counted in mouse_samples
MouseDecode(source, data) ==
    /\ DecodeCore(source, data)
    /\ out'.recorded => TotalSamples(source) < MaxSamples
    /\ mouse_samples' =
           IF out'.recorded
           THEN [mouse_samples EXCEPT ![source][Len(data)] = @ + 1]
           ELSE mouse_samples
    /\ UNCHANGED loop

MouseNext ==
    \/ Connect
    \/ \E source \in Sources : \E data \in MousePayloads : MouseDecode(source, data)
    \/ Cleanup

MouseSpec == MouseInit /\ [][MouseNext]_vars

(***************************************************************************)
(* The bridge in front of a remote control with two media keys.            *)
(***************************************************************************)
\* consumer usages 0, 0x00E9 (volume up), 0x00EA (volume down) and 0x1234
MediaPayloads == {<<0, 0>>, <<233, 0>>, <<234, 0>>, <<52, 18>>}

MediaInit ==
    /\ BridgeInit
    /\ device = "remote"
    /\ rdefs = NoDefinitions
    /\ rdata = <<>>
    /\ rres = Unresolved

MediaNext ==
    \/ Connect
    \/ \E source \in Sources : \E data \in MediaPayloads : Decode(source, data)
    \/ Tick
    \/ Cleanup

MediaSpec == MediaInit /\ [][MediaNext]_vars

(***************************************************************************)
(* The bridge with an injection sink whose calls may raise.                *)
(***************************************************************************)
\* a notification makes at most this many sink calls before the one that raises
MaxSinkCalls == 2

\* a notification during which the sink call numbered fail_at raises
DecodeSinkFails(source, data) ==
    /\ \E fail_at \in 1..(MaxSinkCalls + 1) : DecodeStep(source, data, fail_at)
    /\ UNCHANGED <<mouse_samples, loop>>

SinkInit ==
    /\ BridgeInit
    /\ ui = TRUE
    /\ rdefs = NoDefinitions
    /\ rdata = <<>>
    /\ rres = Unresolved

SinkNext ==
    \/ Connect
    \/ \E source \in Sources : \E data \in DevicePayloads(device) : Decode(source, data)
    \/ \E source \in Sources : \E data \in DevicePayloads(device) :
          DecodeSinkFails(source, data)
    \/ Cleanup

SinkSpec == SinkInit /\ [][SinkNext]_vars

(***************************************************************************)
(* The report-map parser, one loop iteration per step.  pstate holds the   *)
(* locals of parse_hid_report_map, the item consumed by the last iteration *)
(* (last) and the Input/Output/Feature items accumulated so far (log).     *)
(***************************************************************************)
\* descriptors are also built from up to MaxItems short items
MaxItems == 3

\* app_usage = None
NoPair == <<>>

\* no item was consumed yet
NoItem == [kind |-> None, tag |-> 0, value |-> 0, accumulated |-> FALSE, pair |-> NoPair]

Item(kind, tag, value, accumulated, pair) ==
    [kind |-> kind, tag |-> tag, value |-> value, accumulated |-> accumulated, pair |-> pair]

\* report_data[report_id] when the id is met first
NewReport == [bits |-> 0, usages |-> {}, directions |-> {}]

\* the locals before the loop
ParserStart(report_map) ==
    [map |-> report_map, i |-> 0, usage_page |-> 0, usage |-> 0, report_id |-> 0,
     report_size |-> 0, report_count |-> 0, collection_stack |-> <<>>,
     report_data |-> EmptyDict, stopped |-> FALSE, done |-> FALSE, raised |-> FALSE,
     definitions |-> EmptyDict, last |-> NoItem, log |-> <<>>]

\* 0 if size_code == 0 else (1 if size_code == 1 else (2 if size_code == 2 else 4))
ItemSize(size_code) ==
    IF size_code = 0 THEN 0 ELSE IF size_code = 1 THEN 1 ELSE IF size_code = 2 THEN 2 ELSE 4

\* for coll in reversed(collection_stack): the first Application collection
RECURSIVE NearestApplication(_)
NearestApplication(stack) ==
    IF stack = <<>> THEN NoPair
    ELSE IF stack[Len(stack)].type = 1
    THEN <<stack[Len(stack)].usage_page, stack[Len(stack)].usage>>
    ELSE NearestApplication(SubSeq(stack, 1, Len(stack) - 1))

\* mutant: the innermost collection gives the pair, whatever its type
AppUsageInnermost(stack) ==
    IF stack = <<>> THEN NoPair
    ELSE <<stack[Len(stack)].usage_page, stack[Len(stack)].usage>>

\* app_usage of an Input/Output/Feature item
AppUsage(stack) ==
    IF NearestApplication(stack) = NoPair /\ stack # <<>>
    THEN <<stack[Len(stack)].usage_page, stack[Len(stack)].usage>>
    ELSE NearestApplication(stack)

\* mutant: only report_size is reset
ResetConsumedSizeOnly(p) == [p EXCEPT !.report_size = 0]

\* report_size = 0; report_count = 0
ResetConsumed(p) == [p EXCEPT !.report_size = 0, !.report_count = 0]

Direction(tag) == IF tag = 8 THEN "input" ELSE IF tag = 9 THEN "output" ELSE "feature"

\* the "Accumulate" block of an Input/Output/Feature item
Accumulate(p, tag, value) ==
    LET bits == p.report_size * p.report_count
        old == IF p.report_id \in DOMAIN p.report_data
               THEN p.report_data[p.report_id] ELSE NewReport
        app_usage == AppUsage(p.collection_stack)
        new == [bits |-> old.bits + bits,
                usages |-> IF app_usage = NoPair THEN old.usages
                           ELSE old.usages \cup {app_usage},
                directions |-> old.directions \cup {Direction(tag)}]
    IN  ResetConsumed(
            [p EXCEPT !.report_data = DictSet(@, p.report_id, new),
                      !.last = Item("main", tag, value, TRUE, app_usage),
                      !.log = Append(@, [report_id |-> p.report_id,
                                         report_size |-> p.report_size,
                                         report_count |-> p.report_count])])

\* item_type == 0
MainItem(p, tag, value) ==
    IF tag = 10
    THEN [p EXCEPT !.collection_stack =
                       Append(@, [usage_page |-> p.usage_page, usage |-> p.usage,
                                  type |-> value % 256]),
                   !.usage = 0,
                   !.last = Item("main", tag, value, FALSE, NoPair)]
    ELSE IF tag = 12
    THEN [p EXCEPT !.collection_stack =
                       IF @ = <<>> THEN @ ELSE SubSeq(@, 1, Len(@) - 1),
                   !.last = Item("main", tag, value, FALSE, NoPair)]
    ELSE IF tag \in {8, 9, 11} /\ p.report_size # 0 /\ p.report_count # 0
    THEN Accumulate(p, tag, value)
    ELSE [p EXCEPT !.last = Item("main", tag, value, FALSE, NoPair)]

\* item_type == 1
GlobalItem(p, tag, value) ==
    LET q == [p EXCEPT !.last = Item("global", tag, value, FALSE, NoPair)]
    IN  IF tag = 0 THEN [q EXCEPT !.usage_page = value]
        ELSE IF tag = 7 THEN [q EXCEPT !.report_size = value]
        ELSE IF tag = 8 THEN [q EXCEPT !.report_id = value]
        ELSE IF tag = 9 THEN [q EXCEPT !.report_count = value]
        ELSE q

\* item_type == 2
LocalItem(p, tag, value) ==
    LET q == [p EXCEPT !.last = Item("local", tag, value, FALSE, NoPair)]
    IN  IF tag = 0 THEN [q EXCEPT !.usage = value] ELSE q

\* a short item whose prefix was read; i1 is the index after the prefix
ShortItem(p, prefix, i1) ==
    LET item_size == ItemSize(prefix % 4)
        item_type == (prefix \div 4) % 4
        tag == (prefix \div 16) % 16
    IN  IF i1 + item_size > Len(p.map)
        THEN [p EXCEPT !.i = i1, !.stopped = TRUE]
        ELSE LET value == IF item_size = 0 THEN 0
                          ELSE FromBytesLE(Slice(p.map, i1, i1 + item_size))
                 q == [p EXCEPT !.i = i1 + item_size]
             IN  IF item_type = 1 THEN GlobalItem(q, tag, value)
                 ELSE IF item_type = 2 THEN LocalItem(q, tag, value)
                 ELSE IF item_type = 0 THEN MainItem(q, tag, value)
                 ELSE [q EXCEPT !.last = Item("reserved", tag, value, FALSE, NoPair)]

\* mutant: the length byte of a long item is read without the bounds check
LongItemUnchecked(p, i1) ==
    IF i1 >= Len(p.map)
    THEN [p EXCEPT !.i = i1, !.raised = TRUE]
    ELSE [p EXCEPT !.i = i1 + 1 + p.map[i1 + 1],
                   !.last = Item("long", 15, p.map[i1 + 1], FALSE, NoPair)]

\* prefix == 0xFE; report_map[i] raises IndexError when i is past the end
LongItem(p, i1) ==
    IF i1 + 1 >= Len(p.map)
    THEN [p EXCEPT !.i = i1, !.stopped = TRUE]
    ELSE IF i1 >= Len(p.map)
    THEN [p EXCEPT !.i = i1, !.raised = TRUE]
    ELSE [p EXCEPT !.i = i1 + 1 + p.map[i1 + 1],
                   !.last = Item("long", 15, p.map[i1 + 1], FALSE, NoPair)]

\* one iteration of "while i < len(report_map)"
ParseIteration(p) ==
    IF p.map[p.i + 1] = 254
    THEN LongItem(p, p.i + 1)
    ELSE ShortItem(p, p.map[p.i + 1], p.i + 1)

\* the type one usage pair stands for
PairType(pair) ==
    IF pair = <<1, 2>> THEN "mouse"
    ELSE IF pair = <<1, 6>> THEN "keyboard"
    ELSE IF pair = <<12, 1>> THEN "consumer"
    ELSE IF pair = <<1, 128>> THEN "system"
    ELSE None

\* order: the iteration order of the set usage_pairs
RECURSIVE determine_report_type(_)
determine_report_type(order) ==
    IF order = <<>> THEN "unknown"
    ELSE IF PairType(Head(order)) # None THEN PairType(Head(order))
    ELSE determine_report_type(Tail(order))

ReportKinds == {"mouse", "keyboard", "consumer", "system", "unknown"}

\* mutant: the size in bytes is rounded down
SizeBytesFloor(bits) == bits \div 8

\* size_bytes = (info["bits"] + 7) // 8
SizeBytes(bits) == (bits + 7) \div 8

\* the descriptors of a keyboard, of a keyboard and mouse without report ids, of a
\* remote control, one whose Report Size and Report Count precede a collection, one
\* with an item outside every collection and a non-Application collection, and one
\* with a long item, a two-byte usage page, a four-byte item and a trailing 0xFE
KeyboardDescriptor ==
    <<5, 1, 9, 6, 161, 1, 133, 1, 117, 1, 149, 8, 129, 2, 149, 1, 117, 8, 129, 1,
      149, 6, 117, 8, 129, 0, 192>>

ComboDescriptor ==
    <<5, 1, 9, 6, 161, 1, 117, 8, 149, 2, 129, 2, 192,
      5, 1, 9, 2, 161, 1, 9, 1, 161, 0, 117, 1, 149, 3, 129, 2, 117, 8, 149, 2, 129, 6,
      192, 192>>

RemoteDescriptor ==
    <<5, 12, 9, 1, 161, 1, 133, 1, 117, 16, 149, 1, 129, 0, 192,
      5, 1, 9, 128, 161, 1, 133, 2, 117, 1, 149, 3, 129, 2, 192>>

StickyDescriptor ==
    <<117, 8, 149, 1, 5, 1, 9, 128, 161, 1, 129, 2, 129, 2, 149, 1, 129, 2,
      117, 8, 129, 2, 192>>

FallbackDescriptor ==
    <<117, 8, 149, 1, 129, 2, 5, 12, 9, 1, 161, 0, 133, 1, 117, 16, 149, 1, 145, 0,
      192, 192>>

LongItemDescriptor ==
    <<254, 2, 0, 0, 6, 0, 255, 9, 1, 161, 1, 117, 8, 149, 1, 177, 2, 23, 1, 0, 0, 0,
      192, 254>>

\* every truncation of a descriptor
Prefixes(d) == {SubSeq(d, 1, n) : n \in 0..Len(d)}

\* short items: Report Size 8, Report Count 1, Input, Output, Collection
\* (Application), Collection (Physical), End Collection, Usage Page 1, Usage 6,
\* Report ID 1
ShortItems ==
    {<<117, 8>>, <<149, 1>>, <<129, 2>>, <<145, 2>>, <<161, 1>>, <<161, 0>>, <<192>>,
     <<5, 1>>, <<9, 6>>, <<133, 1>>}

RECURSIVE Flatten(_)
Flatten(items) == IF items = <<>> THEN <<>> ELSE Head(items) \o Flatten(Tail(items))

Descriptors ==
    UNION {Prefixes(d) : d \in {KeyboardDescriptor, ComboDescriptor, RemoteDescriptor,
                                StickyDescriptor, FallbackDescriptor, LongItemDescriptor}}
    \cup {Flatten(q) : q \in UNION {[1..n -> ShortItems] : n \in 0..MaxItems}}

ParseInit ==
    /\ ui = TRUE
    /\ triggers = <<>>
    /\ device = "keyboard"
    /\ connected = FALSE
    /\ report_definitions = NoDefinitions
    /\ key_states = {}
    /\ key_press_times = EmptyDict
    /\ current_modifiers = {}
    /\ media_pressed_by_source = [s \in Sources |-> {}]
    /\ media_press_times = EmptyDict
    /\ system_pressed_by_source = [s \in Sources |-> {}]
    /\ system_press_times = EmptyDict
    /\ observed_mouse_lengths = [s \in Sources |-> {}]
    /\ now = 0
    /\ actions = <<>>
    /\ commands = <<>>
    /\ sink = <<>>
    /\ out = Idle
    /\ sinkDown = {}
    /\ prev_modifiers_byte = 0
    /\ tcall = NoCall
    /\ mouse_samples = NoSamples
    /\ rdefs = NoDefinitions
    /\ rdata = <<>>
    /\ rres = Unresolved
    /\ pstate \in {ParserStart(m) : m \in Descriptors}
    /\ loop = NoLoop
    /\ tfile = NoFile
    /\ life = NoLife
    /\ pairing = NoPairing

\* what the parser leaves alone
ParseFrame ==
    /\ UNCHANGED <<ui, triggers, device, connected, report_definitions, now, actions,
                   commands, sink, out, sinkDown, prev_modifiers_byte,
                   observed_mouse_lengths, tcall, mouse_samples>>
    /\ UNCHANGED trackingVars
    /\ UNCHANGED resolverVars
    /\ UNCHANGED toolVars

\* one loop iteration
ParseItem ==
    /\ ~pstate.done /\ ~pstate.stopped /\ ~pstate.raised
    /\ pstate.i < Len(pstate.map)
    /\ pstate' = ParseIteration(pstate)
    /\ ParseFrame

\* the loop was left: "Build final result" and return
ParseReturn ==
    /\ ~pstate.done /\ ~pstate.raised
    /\ pstate.stopped \/ pstate.i >= Len(pstate.map)
    /\ \E types \in [DOMAIN pstate.report_data -> ReportKinds],
          dirs \in [DOMAIN pstate.report_data -> {"input", "output", "feature"}] :
          /\ \A rid \in DOMAIN pstate.report_data :
                /\ \E order \in Orders(pstate.report_data[rid].usages) :
                      types[rid] = determine_report_type(order)
                /\ IF "input" \in pstate.report_data[rid].directions
                   THEN dirs[rid] = "input"
                   ELSE dirs[rid] \in pstate.report_data[rid].directions
          /\ pstate' =
                 [pstate EXCEPT
                     !.done = TRUE,
                     !.definitions =
                         [rid \in DOMAIN pstate.report_data |->
                             [type |-> types[rid], direction |-> dirs[rid],
                              size_bytes |-> SizeBytes(pstate.report_data[rid].bits),
                              bits |-> pstate.report_data[rid].bits,
                              usage_pairs |-> pstate.report_data[rid].usages]]]
    /\ ParseFrame

ParseNext == ParseItem \/ ParseReturn

ParseSpec == ParseInit /\ [][ParseNext]_vars

(***************************************************************************)
(* Properties.                                                             *)
(***************************************************************************)
\* how often an action of this kind for this keycode occurs in an action list
CountActions(acts, kind, code) ==
    Cardinality({i \in 1..Len(acts) : acts[i].kind = kind /\ acts[i].code = code})

\* no call of the list presses a keycode that is down at the sink
RECURSIVE DupFree(_, _)
DupFree(down, calls) ==
    IF calls = <<>> THEN TRUE
    ELSE LET c == Head(calls)
         IN  /\ c.kind = "press" => c.code \notin down
             /\ DupFree(SinkAfter(down, <<c>>), Tail(calls))

\* C1: over any sequence of notifications from any sources, interleaved with
\* disconnect/reconnect cycles, the sink never receives a Press for a keycode whose
\* last call at the sink was a Press (no Release in between).
C1_NoDuplicatePress == [][DupFree(sinkDown, sink')]_vars

\* the tracking state the decoder of source b works on: the pressed normal keys, the
\* source's pressed media and system keys and the press timestamps
SourceTracking(b) ==
    <<key_states, key_press_times, media_pressed_by_source[b], media_press_times,
      system_pressed_by_source[b], system_press_times>>

\* C2: decoding a notification from source A leaves the tracking state of every
\* other source B (pressed normal keys, pressed media/system keys, press
\* timestamps) as it was.
C2_NoCrossSourceInterference ==
    [][\A b \in Sources :
          (out'.source # None /\ out'.source # b) => SourceTracking(b)' = SourceTracking(b)]_vars

\* the commands the claimed classification of a release of keycode k dispatches
ClaimedCommands(k, hold_duration, active_modifiers) ==
    {match_trigger(triggers, k, IF hold_duration >= MIN_HOLD_DURATION THEN 2 ELSE 1,
                   active_modifiers),
     match_trigger(triggers, k, 0, active_modifiers)} \ {None}

\* C3: when a pressed normal key with a recorded press time is released by a
\* keyboard report, the command of the matching eventValue=1 rule (held shorter than
\* 0.5 s) or eventValue=2 rule (held 0.5 s or longer) is dispatched, and the command
\* of a matching eventValue=0 rule as well.
C3_KeyboardReleaseClassified ==
    [][\A k \in NormalKeys :
          (/\ out'.report_type = "keyboard"
           /\ k \in key_states /\ k \notin key_states'
           /\ k \in DOMAIN key_press_times)
          => ClaimedCommands(k, now - key_press_times[k], current_modifiers')
                 \subseteq Range(commands')]_vars

\* C4: for every modifier bit b of an 8-byte keyboard payload, a report with b set
\* emits exactly one Pressed for the modifier's keycode if b was clear in the
\* preceding 8-byte report of the connection (or there was none) and no Pressed if b
\* was set there; a report with b clear emits exactly one Released if b was set in
\* the preceding report and none otherwise.
C4_ModifierEdges ==
    [][out'.kb8 =>
          \A bit \in 0..7 :
             LET keycode == MOD_BITS_TO_EVKEY[bit + 1]
                 was == BitSet(prev_modifiers_byte, bit)
                 is == BitSet(prev_modifiers_byte', bit)
             IN  /\ CountActions(actions', "Pressed", keycode) = IF is /\ ~was THEN 1 ELSE 0
                 /\ CountActions(actions', "Released", keycode) = IF was /\ ~is THEN 1 ELSE 0]_vars

\* C4 witness: an 8-byte report with the left-control bit clear released left control,
\* which an earlier report had pressed.
C4_Witness ==
    /\ out.kb8
    /\ ~BitSet(prev_modifiers_byte, 0)
    /\ CountActions(actions, "Released", KEY_LEFTCTRL) = 1

\* the payload starts with a known report id and, past the id byte, holds the
\* definition's size_bytes bytes followed by zero bytes only
ReportIdMatch(defs, data) ==
    /\ Len(data) >= 1
    /\ data[1] \in DOMAIN defs
    /\ Len(data) - 1 >= defs[data[1]].size_bytes
    /\ \A i \in (defs[data[1]].size_bytes + 2)..Len(data) : data[i] = 0

\* C5: a payload whose first byte is a known report id and whose remainder, with
\* trailing zero padding trimmed, has the definition's size resolves to that
\* definition, with the size_bytes bytes after the id as payload and reason
\* report_id_exact (no extra bytes) or report_id_padded.
C5_ResolvedByReportId ==
    (rres # Pending /\ DOMAIN rdefs # {} /\ ReportIdMatch(rdefs, rdata))
    => /\ rres.resolved
       /\ rres.report_id = rdata[1]
       /\ rres.payload = SubSeq(rdata, 2, 1 + rdefs[rdata[1]].size_bytes)
       /\ rres.reason = IF Len(rdata) - 1 = rdefs[rdata[1]].size_bytes
                        THEN "report_id_exact" ELSE "report_id_padded"

\* the definitions whose size is the payload's length
SameSize(defs, data) == {rid \in DOMAIN defs : defs[rid].size_bytes = Len(data)}

\* C6: when exactly one definition has the payload's length (and no report-id
\* match applies) the payload resolves to it with reason length_exact,
\* id_included = FALSE and the whole payload as data.
C6_LengthExact ==
    (/\ rres # Pending
     /\ Cardinality(SameSize(rdefs, rdata)) = 1
     /\ ~ReportIdMatch(rdefs, rdata))
    => /\ rres.resolved
       /\ rres.report_id \in SameSize(rdefs, rdata)
       /\ rres.payload = rdata
       /\ rres.id_included = FALSE
       /\ rres.reason = "length_exact"

\* C7: when two or more definitions have the payload's length (and no report-id
\* match applies) resolve returns None.
C7_AmbiguousLengthUnresolved ==
    (/\ rres # Pending
     /\ Cardinality(SameSize(rdefs, rdata)) >= 2
     /\ ~ReportIdMatch(rdefs, rdata))
    => rres = Unresolved

\* C7 witness: two definitions of the payload's length, and resolve returned None.
C7_Witness ==
    /\ rres = Unresolved
    /\ Cardinality(SameSize(rdefs, rdata)) >= 2
    /\ ~ReportIdMatch(rdefs, rdata)
    /\ Len(rdata) = 2

\* the definitions shorter than the payload whose excess bytes are all zero
PaddedCandidates(defs, data) ==
    {rid \in DOMAIN defs :
        /\ defs[rid].size_bytes < Len(data)
        /\ \A i \in (defs[rid].size_bytes + 1)..Len(data) : data[i] = 0}

\* C8: a payload without report-id match and without exact-length match, for which
\* exactly one definition is shorter with only zero bytes beyond its size, resolves
\* to it with reason length_padded and the payload trimmed to size_bytes bytes.
C8_LengthPadded ==
    (/\ rres # Pending
     /\ ~ReportIdMatch(rdefs, rdata)
     /\ SameSize(rdefs, rdata) = {}
     /\ Cardinality(PaddedCandidates(rdefs, rdata)) = 1)
    => /\ rres.resolved
       /\ rres.report_id \in PaddedCandidates(rdefs, rdata)
       /\ rres.payload = SubSeq(rdata, 1, rdefs[rres.report_id].size_bytes)
       /\ rres.reason = "length_padded"

\* the payload starts with a known report id and carries a non-zero byte beyond
\* that definition's size_bytes
NonZeroBeyondSize(defs, data) ==
    /\ Len(data) >= 1
    /\ data[1] \in DOMAIN defs
    /\ \E i \in (defs[data[1]].size_bytes + 2)..Len(data) : data[i] # 0

\* C9: a payload whose first byte is a known report id and that carries a non-zero
\* byte beyond the definition's size is not resolved by report id, and resolve
\* returns None when the table holds only that definition.
C9_NonZeroPaddingUnresolved ==
    (rres # Pending /\ NonZeroBeyondSize(rdefs, rdata))
    => /\ ~rres.id_included
       /\ rres.reason \notin {"report_id_exact", "report_id_padded"}
       /\ DOMAIN rdefs = {rdata[1]} => rres = Unresolved

\* C9 witness: table {1: 2 bytes}, payload 01 E9 00 FF, and resolve returned None.
C9_Witness ==
    /\ rres = Unresolved
    /\ DOMAIN rdefs = {1}
    /\ rdefs[1].size_bytes = 2
    /\ rdata = <<1, 233, 0, 255>>

\* the category the claim gives to a payload length
CategoryOfLength(n) ==
    CASE n = 1 -> "system"
      [] n \in 2..3 -> "consumer"
      [] n \in 4..7 -> "mouse"
      [] n \in 8..9 -> "keyboard"
      [] OTHER -> "unknown"

\* C10: a notification without explicit type whose resolution returns None (every
\* notification when the definition table is empty) gets its category from the raw
\* payload length alone: 1 system, 2..3 consumer, 4..7 mouse, 8..9 keyboard, else
\* unknown, and no report id.
C10_FallbackByLength ==
    /\ (out.source # None /\ out.explicit = None /\ ~out.resolved)
       => /\ out.report_type = CategoryOfLength(out.data_len)
          /\ out.report_id = None
    /\ (out.source # None /\ DOMAIN report_definitions = {})
       => /\ out.explicit = None
          /\ ~out.resolved
          /\ out.report_type = CategoryOfLength(out.data_len)

\* C10 witness: with a non-empty table, a 6-byte payload of a handle without
\* explicit type was not resolved and was decoded as a mouse report.
C10_Witness ==
    /\ out.source # None
    /\ DOMAIN report_definitions # {}
    /\ out.explicit = None
    /\ out.resolve_called
    /\ ~out.resolved
    /\ out.data_len = 6
    /\ out.report_type = "mouse"

\* the rules of the loaded table whose eventValue and mainKey are those of the event
\* and whose modifierKeys are all active
MatchingRules(keycode, value, active_modifiers) ==
    {i \in 1..Len(triggers) :
        /\ triggers[i].value = value
        /\ triggers[i].keys[1] = KEYCODE_TO_NAME[keycode]
        /\ \A j \in 2..Len(triggers[i].keys) :
              /\ triggers[i].keys[j] \in DOMAIN NAME_TO_KEYCODE
              /\ NAME_TO_KEYCODE[triggers[i].keys[j]] \in active_modifiers}

\* the modifierKeys set of a rule
ModifierKeys(rule) == {rule.keys[j] : j \in 2..Len(rule.keys)}

\* the matching rules with the largest modifierKeys set
MostSpecific(matching) ==
    {i \in matching : \A o \in matching :
        Cardinality(ModifierKeys(triggers[o])) <= Cardinality(ModifierKeys(triggers[i]))}

\* C11: among all rules that match a (keycode, value) pair under the active
\* modifiers, match_trigger selects one with the largest modifierKeys set; with a rule
\* without modifiers and a rule requiring KEY_LEFTSHIFT for the same key and value, the
\* shift rule is selected while shift is active.
C11_MostSpecificRuleWins ==
    (tcall.op = "match"
     /\ MatchingRules(tcall.keycode, tcall.value, current_modifiers) # {})
    => \E i \in MostSpecific(MatchingRules(tcall.keycode, tcall.value, current_modifiers)) :
          tcall.result = triggers[i].command

\* C12: a rule that lists a modifier key, whatever its name, that is not in the
\* active modifier set is never the rule whose command match_trigger returns.
C12_InactiveModifierNeverFires ==
    tcall.op = "match"
    => \A i \in 1..Len(triggers) :
          (\E j \in 2..Len(triggers[i].keys) :
              \/ triggers[i].keys[j] \notin DOMAIN NAME_TO_KEYCODE
              \/ NAME_TO_KEYCODE[triggers[i].keys[j]] \notin current_modifiers)
          => tcall.result # triggers[i].command

\* C13: when several matching rules have modifier sets of the same, largest, size,
\* match_trigger returns the command of the one loaded first.
C13_TieGoesToFirstLoaded ==
    (tcall.op = "match"
     /\ Cardinality(MostSpecific(MatchingRules(tcall.keycode, tcall.value,
                                               current_modifiers))) >= 2)
    => LET top == MostSpecific(MatchingRules(tcall.keycode, tcall.value, current_modifiers))
       IN  tcall.result = triggers[CHOOSE i \in top : \A o \in top : i <= o].command

\* the rule of the loaded table that carries a command
RuleOfCommand(command) == triggers[CHOOSE i \in 1..Len(triggers) : triggers[i].command = command]

\* C14: for a release with a stored press time the classifier evaluates value 2 iff
\* the key was held for 0.5 s or longer and value 1 otherwise, never both, and value 0
\* as well; it returns at most one command per evaluated value, at most two in all,
\* the short-press/hold command before the value-0 command.
C14_OneCommandPerValue ==
    (tcall.op = "release" /\ tcall.had_time)
    => LET value == IF tcall.hold_duration >= MIN_HOLD_DURATION THEN 2 ELSE 1
       IN  /\ actions = <<Action("Held", tcall.keycode, <<value, tcall.hold_duration>>)>>
           /\ Len(commands) <= 2
           /\ \A i \in 1..Len(commands) :
                 /\ RuleOfCommand(commands[i]).value \in {value, 0}
                 /\ RuleOfCommand(commands[i]).keys[1] = KEYCODE_TO_NAME[tcall.keycode]
           /\ \A i, j \in 1..Len(commands) :
                 i < j => /\ RuleOfCommand(commands[i]).value = value
                          /\ RuleOfCommand(commands[j]).value = 0

\* C14 witness: KEY_A was released after 0.5 s or more; the hold command and then the
\* release command were returned.
C14_Witness ==
    /\ tcall.op = "release"
    /\ tcall.had_time
    /\ tcall.keycode = KEY_A
    /\ tcall.hold_duration >= MIN_HOLD_DURATION
    /\ commands = <<"a-hold", "a-release">>

\* the keycodes a report can release
ReleasableKeys ==
    NormalKeys \cup Range(MOD_BITS_TO_EVKEY) \cup Range(MEDIA_USAGE_TO_EVKEY)
    \cup Range(SYSTEM_BITS_TO_EVKEY)

\* the commands of the rules whose main key is keycode
CommandsOfKey(keycode) ==
    {triggers[i].command :
        i \in {j \in 1..Len(triggers) : triggers[j].keys[1] = KEYCODE_TO_NAME[keycode]}}

\* C15: a report that releases a keycode without stored press timestamp emits
\* Released for it and dispatches no command of that keycode; a release leaves no
\* timestamp of the keycode behind, so a second release without a new press
\* dispatches nothing either.
C15_ReleaseWithoutPressTime ==
    [][\A k \in ReleasableKeys :
          LET rt == out'.report_type
              src == out'.source
              wasPressed == IF rt = "keyboard" THEN k \in key_states
                            ELSE IF rt = "consumer" THEN k \in media_pressed_by_source[src]
                            ELSE k \in system_pressed_by_source[src]
              isPressed == IF rt = "keyboard" THEN k \in key_states'
                           ELSE IF rt = "consumer" THEN k \in media_pressed_by_source'[src]
                           ELSE k \in system_pressed_by_source'[src]
              hadTime == IF rt = "keyboard" THEN k \in DOMAIN key_press_times
                         ELSE IF rt = "consumer" THEN k \in DOMAIN media_press_times
                         ELSE k \in DOMAIN system_press_times
              hasTime == IF rt = "keyboard" THEN k \in DOMAIN key_press_times'
                         ELSE IF rt = "consumer" THEN k \in DOMAIN media_press_times'
                         ELSE k \in DOMAIN system_press_times'
          IN  (/\ src # None
               /\ rt \in {"keyboard", "consumer", "system"}
               /\ wasPressed /\ ~isPressed)
              => /\ CountActions(actions', "Released", k) = 1
                 /\ ~hasTime
                 /\ ~hadTime => /\ Range(commands') \cap CommandsOfKey(k) = {}
                                /\ CountActions(actions', "Held", k) = 0]_vars

\* C15 witness: with the rule file loaded, a consumer report released KEY_VOLUMEUP
\* whose press timestamp was gone; Released was emitted, nothing was classified and
\* no command dispatched.
C15_Witness ==
    /\ out.report_type = "consumer"
    /\ triggers = RuleTable
    /\ CountActions(actions, "Released", KEY_VOLUMEUP) = 1
    /\ CountActions(actions, "Held", KEY_VOLUMEUP) = 0
    /\ commands = <<>>

\* every pressed set, every press-timestamp map and the active-modifier set is empty
AllTrackingEmpty ==
    /\ key_states = {}
    /\ \A s \in Sources : media_pressed_by_source[s] = {} /\ system_pressed_by_source[s] = {}
    /\ DOMAIN key_press_times = {}
    /\ DOMAIN media_press_times = {}
    /\ DOMAIN system_press_times = {}
    /\ current_modifiers = {}

\* C16: cleanup empties the pressed normal-key set, the pressed media and system
\* sets, the press-timestamp maps and the active-modifier set in one step; they stay
\* empty until the next connection decodes a notification, and the first report
\* that then shows a key down emits Pressed for it.
C16_CleanupResetsTracking ==
    [][/\ (connected /\ ~connected') => AllTrackingEmpty'
       /\ ~connected => AllTrackingEmpty /\ (~connected' => AllTrackingEmpty')
       /\ (out'.source # None /\ AllTrackingEmpty)
          => \A k \in key_states' \cup media_pressed_by_source'[out'.source]
                      \cup system_pressed_by_source'[out'.source] :
                CountActions(actions', "Pressed", k) = 1]_vars

\* C16 witness: the link is down after a connection during which KEY_A went down at
\* the sink and was not released.
C16_Witness ==
    /\ ~connected
    /\ KEY_A \in sinkDown
    /\ AllTrackingEmpty

\* C17: the observed mouse payload lengths of every source are discarded on
\* disconnect, so the first mouse payload of the next connection finds none.
C17_MouseLengthsDiscarded ==
    ~connected => \A s \in Sources : observed_mouse_lengths[s] = {}

\* the lengths recorded most often for a source
MostFrequent(samples) ==
    {l \in MouseLengths : samples[l] > 0 /\ \A o \in MouseLengths : samples[o] <= samples[l]}

\* C18: once at least three length samples have been recorded for a source, the
\* effective length of every later mouse payload of that source is the length
\* recorded most often, whatever the payload's own length.
C18_EffectiveLengthLocks ==
    [][(/\ out'.source # None
        /\ out'.report_type = "mouse"
        /\ ~out'.raised
        /\ TotalSamples(out'.source) >= MIN_SAMPLES_FOR_CONFIDENCE)
       => out'.effective_len \in MostFrequent(mouse_samples'[out'.source])]_vars

\* C19: a mouse payload changes the observed lengths only if the X or the Y delta
\* of the motion action it emits has absolute value 2 or more.
C19_RecordOnlyOnMovement ==
    [][(/\ out'.source # None
        /\ out'.report_type = "mouse"
        /\ observed_mouse_lengths' # observed_mouse_lengths)
       => \E i \in 1..Len(actions') :
             /\ actions'[i].kind = "Mouse"
             /\ \/ Abs(actions'[i].arg[1]) >= MOUSE_MIN_MOVEMENT_THRESHOLD
                \/ Abs(actions'[i].arg[2]) >= MOUSE_MIN_MOVEMENT_THRESHOLD]_vars

\* C20: a 6-byte keyboard payload leaves the active-modifier set as it was before
\* the report.
C20_SixByteKeepsModifiers ==
    [][(/\ out'.source # None
        /\ out'.report_type = "keyboard"
        /\ out'.data_len = 6)
       => current_modifiers' = current_modifiers]_vars

(***************************************************************************)
(* The report-map parser.                                                  *)
(***************************************************************************)
\* an iteration consumed an item of the given kind
Consumed(kind) ==
    /\ ~pstate.done /\ ~pstate'.done
    /\ ~pstate'.stopped /\ ~pstate'.raised
    /\ pstate'.i > pstate.i
    /\ pstate'.last.kind = kind

\* the sum of report_size * report_count over the accumulated items of one id
RECURSIVE LoggedBits(_, _)
LoggedBits(log, rid) ==
    IF log = <<>> THEN 0
    ELSE (IF Head(log).report_id = rid
          THEN Head(log).report_size * Head(log).report_count ELSE 0)
         + LoggedBits(Tail(log), rid)

\* C23: every report id the parser returns carries the sum of size * count of the
\* Input/Output/Feature items accumulated for it as its bits, and its size in
\* bytes is that number of bits divided by eight and rounded up.
C23_BitsAndSizeBytes ==
    pstate.done =>
        /\ DOMAIN pstate.definitions = {pstate.log[k].report_id : k \in DOMAIN pstate.log}
        /\ \A rid \in DOMAIN pstate.definitions :
              /\ pstate.definitions[rid].bits = LoggedBits(pstate.log, rid)
              /\ pstate.definitions[rid].size_bytes * 8 >= pstate.definitions[rid].bits
              /\ (pstate.definitions[rid].size_bytes - 1) * 8 < pstate.definitions[rid].bits

\* C23 witness: a returned report made of several items whose bits do not fill
\* whole bytes.
C23_Witness ==
    /\ pstate.done
    /\ \E rid \in DOMAIN pstate.definitions :
          /\ pstate.definitions[rid].bits % 8 # 0
          /\ Cardinality({k \in DOMAIN pstate.log : pstate.log[k].report_id = rid}) >= 2

\* the type the fixed priority mouse > keyboard > consumer > system gives
PriorityType(pairs) ==
    IF <<1, 2>> \in pairs THEN "mouse"
    ELSE IF <<1, 6>> \in pairs THEN "keyboard"
    ELSE IF <<12, 1>> \in pairs THEN "consumer"
    ELSE IF <<1, 128>> \in pairs THEN "system"
    ELSE "unknown"

\* C24: the type of a returned report is decided by its set of usage pairs with
\* the fixed priority mouse, keyboard, consumer, system, unknown; a set with both
\* the mouse and the keyboard pair is a mouse.
C24_TypeByPriority ==
    pstate.done =>
        \A rid \in DOMAIN pstate.definitions :
            pstate.definitions[rid].type = PriorityType(pstate.definitions[rid].usage_pairs)

\* C25: on every byte sequence the parser never raises and never reads outside
\* the buffer, every iteration moves forward or stops the loop, and the return
\* holds exactly the reports accumulated before the stopping point.
C25_ParserTerminates ==
    [][/\ ~pstate'.raised
       /\ (~pstate.done /\ ~pstate'.done) =>
              /\ pstate'.i > pstate.i
              /\ pstate'.stopped \/ pstate'.i <= Len(pstate.map) + 255
              /\ pstate'.stopped => pstate'.report_data = pstate.report_data
       /\ (~pstate.done /\ pstate'.done) =>
              /\ DOMAIN pstate'.definitions = DOMAIN pstate.report_data
              /\ \A rid \in DOMAIN pstate.report_data :
                    /\ pstate'.definitions[rid].bits = pstate.report_data[rid].bits
                    /\ pstate'.definitions[rid].usage_pairs = pstate.report_data[rid].usages]_vars

\* C25 witness: the parser returned after a truncated item stopped it, with the
\* reports accumulated before it.
C25_Witness ==
    /\ pstate.done /\ pstate.stopped
    /\ pstate.i < Len(pstate.map)
    /\ DOMAIN pstate.definitions # {}

\* C26 as stated: after any Main item report_size and report_count are zero.
C26_ZeroAfterAnyMainItem ==
    [][Consumed("main") => pstate'.report_size = 0 /\ pstate'.report_count = 0]_vars

\* C26 amended: after an accumulated Input, Output or Feature item report_size
\* and report_count are zero; a Collection, an End Collection and an Input, Output
\* or Feature item that is skipped leave both as they were.
C26_ZeroAfterAccumulatedItem ==
    [][Consumed("main") =>
          IF pstate'.last.accumulated
          THEN pstate'.report_size = 0 /\ pstate'.report_count = 0
          ELSE /\ pstate'.report_size = pstate.report_size
               /\ pstate'.report_count = pstate.report_count
               /\ pstate'.report_data = pstate.report_data]_vars

\* C26 witness: a second item was accumulated, and both values are zero again.
C26_Witness ==
    /\ ~pstate.done
    /\ pstate.last.kind = "main" /\ pstate.last.accumulated
    /\ Len(pstate.log) = 2
    /\ pstate.report_size = 0 /\ pstate.report_count = 0

\* the pair of the nearest enclosing Application collection, else of the
\* innermost open collection, else none
EnclosingPair(stack) ==
    LET apps == {k \in DOMAIN stack : stack[k].type = 1}
        k == CHOOSE a \in apps : \A b \in apps : b <= a
    IN  IF apps # {} THEN {<<stack[k].usage_page, stack[k].usage>>}
        ELSE IF stack # <<>>
        THEN {<<stack[Len(stack)].usage_page, stack[Len(stack)].usage>>}
        ELSE {}

\* the usage pairs recorded for a report id
UsagesOfReport(p, rid) ==
    IF rid \in DOMAIN p.report_data THEN p.report_data[rid].usages ELSE {}

\* C27: a Collection is opened with the usage page and usage current at that
\* moment; an accumulated Input, Output or Feature item records the pair of the
\* nearest enclosing Application collection, else the pair of the innermost open
\* collection, else no pair.
C27_NearestApplicationPair ==
    [][/\ (Consumed("main") /\ pstate'.last.tag = 10) =>
              pstate'.collection_stack =
                  Append(pstate.collection_stack,
                         [usage_page |-> pstate.usage_page, usage |-> pstate.usage,
                          type |-> pstate'.last.value % 256])
       /\ (Consumed("main") /\ pstate'.last.accumulated) =>
              /\ pstate'.collection_stack = pstate.collection_stack
              /\ UsagesOfReport(pstate', pstate.report_id) =
                     UsagesOfReport(pstate, pstate.report_id)
                     \cup EnclosingPair(pstate.collection_stack)]_vars

\* C27 witness: an item was accumulated inside a Physical collection nested in an
\* Application collection, and the pair of the Application collection was
\* recorded.
C27_Witness ==
    /\ ~pstate.done
    /\ pstate.last.accumulated
    /\ Len(pstate.collection_stack) = 2
    /\ pstate.collection_stack[1].type = 1 /\ pstate.collection_stack[2].type = 0
    /\ pstate.last.pair = <<pstate.collection_stack[1].usage_page, pstate.collection_stack[1].usage>>
    /\ pstate.last.pair # <<pstate.collection_stack[2].usage_page, pstate.collection_stack[2].usage>>

(***************************************************************************)
(* Consumer reports, unsupported shapes, unmapped usages, sink failures.   *)
(***************************************************************************)
\* the 16-bit usage of a consumer payload
ConsumerUsage(payload) == FromBytesLE(Slice(payload, 0, 2))

\* the step decodes a consumer report that carries a usage
ConsumerStep ==
    /\ out'.source # None
    /\ out'.report_type = "consumer"
    /\ Len(out'.payload) >= 2

\* C21: a mapped, non-zero consumer usage emits Pressed only if its keycode is not
\* yet in the source's pressed media set, so several keycodes can be down together;
\* a usage-0 report emits exactly one Released for every keycode of that set, runs
\* the hold classifier for each and leaves the set empty.
C21_ConsumerPressAndReleaseAll ==
    [][ConsumerStep =>
          LET src == out'.source
              usage == ConsumerUsage(out'.payload)
              held == media_pressed_by_source[src]
          IN  /\ (usage \in DOMAIN MEDIA_USAGE_TO_EVKEY /\ usage # 0) =>
                    LET k == MEDIA_USAGE_TO_EVKEY[usage]
                    IN  /\ CountActions(actions', "Pressed", k) = (IF k \in held THEN 0 ELSE 1)
                        /\ Len(actions') = (IF k \in held THEN 0 ELSE 1)
                        /\ media_pressed_by_source'[src] = held \cup {k}
              /\ usage = 0 =>
                    /\ media_pressed_by_source'[src] = {}
                    /\ \A k \in held :
                          /\ CountActions(actions', "Released", k) = 1
                          /\ CountActions(actions', "Held", k) =
                                 (IF k \in DOMAIN media_press_times THEN 1 ELSE 0)
                          /\ k \notin DOMAIN media_press_times'
                    /\ \A i \in DOMAIN actions' :
                          /\ actions'[i].kind \in {"Released", "Held"}
                          /\ actions'[i].code \in held]_vars

\* C21 witness: a usage-0 report released volume up and volume down, both held by
\* the source, and emptied the source's set.
C21_Witness ==
    /\ out.report_type = "consumer"
    /\ Len(out.payload) >= 2 /\ ConsumerUsage(out.payload) = 0
    /\ CountActions(actions, "Released", KEY_VOLUMEUP) = 1
    /\ CountActions(actions, "Released", KEY_VOLUMEDOWN) = 1
    /\ media_pressed_by_source[out.source] = {}

\* the two notifications of the example: report id 1 with nothing down, then
\* report id 1 with left shift and usage 4
EmptyKeyboardReport == <<1, 0, 0, 0, 0, 0, 0, 0, 0>>

ShiftAReport == <<1, 2, 0, 0, 4, 0, 0, 0, 0>>

\* C22: with report id 1 defined as a keyboard and nothing tracked, the payload
\* 01 00 00 00 00 00 00 00 00 produces no action, and the payload
\* 01 02 00 00 04 00 00 00 00 that follows produces exactly left shift Pressed and
\* then KEY_A Pressed.
C22_NineByteKeyboardExample ==
    [][/\ ( /\ out'.source # None
            /\ out'.data = EmptyKeyboardReport
            /\ report_definitions = ReportMap("keyboard")
            /\ AllTrackingEmpty )
          => /\ actions' = <<>>
             /\ sink' = <<>>
             /\ UNCHANGED trackingVars
       /\ ( /\ out.source # None
            /\ out.data = EmptyKeyboardReport
            /\ report_definitions = ReportMap("keyboard")
            /\ AllTrackingEmpty
            /\ out'.source # None
            /\ out'.data = ShiftAReport )
          => actions' = <<Action("Pressed", KEY_LEFTSHIFT, <<>>),
                          Action("Pressed", KEY_A, <<>>)>>]_vars

\* C22 witness: the second payload of the example was decoded on a fresh keyboard
\* and left shift and KEY_A are down.
C22_Witness ==
    /\ out.source # None
    /\ out.data = ShiftAReport
    /\ report_definitions = ReportMap("keyboard")
    /\ actions = <<Action("Pressed", KEY_LEFTSHIFT, <<>>), Action("Pressed", KEY_A, <<>>)>>
    /\ key_states = {KEY_LEFTSHIFT, KEY_A}
    /\ DOMAIN key_press_times = {KEY_A}

\* a payload whose length is no supported shape of its category, or a payload of
\* an unknown category
UnsupportedShape(o) ==
    \/ o.report_type = "keyboard" /\ Len(o.payload) \notin {6, 8, 9}
    \/ o.report_type = "mouse" /\ Len(o.payload) < 3
    \/ o.report_type = "consumer" /\ Len(o.payload) < 2
    \/ o.report_type \notin {"keyboard", "mouse", "consumer", "system"}

DiagnosticKinds ==
    {"Keyboard report unexpected length", "Consumer report too short",
     "Unsupported report type"}

\* C28: a payload of an unsupported shape or of an unknown category produces
\* exactly one diagnostic action, makes no sink call and changes no pressed set,
\* timestamp map or modifier set (stated for the notifications whose decoding
\* returns).
C28_UnsupportedShapeOneDiagnostic ==
    [][(out'.source # None /\ ~out'.raised /\ UnsupportedShape(out')) =>
          /\ Len(actions') = 1
          /\ actions'[1].kind \in DiagnosticKinds
          /\ sink' = <<>>
          /\ UNCHANGED trackingVars]_vars

\* the key usages of a keyboard payload of a supported length
ReportedUsages(payload) ==
    LET kp == IF Len(payload) = 9 THEN Tail(payload) ELSE payload
    IN  {kp[i] : i \in (IF Len(kp) = 8 THEN 3..8 ELSE 1..Len(kp))} \ {0}

\* C29: a non-zero keyboard or consumer usage without a keycode produces one
\* unknown-usage diagnostic, enters no pressed set and no timestamp map and causes
\* no sink call; the mapped usages of the same keyboard report are pressed all the
\* same.
C29_UnmappedUsageOnlyDiagnosed ==
    [][/\ ( /\ out'.source # None
            /\ out'.report_type = "keyboard"
            /\ Len(out'.payload) \in {6, 8, 9} )
          => LET reported == ReportedUsages(out'.payload)
                 mapped == reported \cap DOMAIN USAGE_TO_EVKEY
             IN  /\ \A u \in reported \ mapped :
                       CountActions(actions', "Unknown keyboard usage", u) = 1
                 /\ \A i \in DOMAIN actions' :
                       actions'[i].kind = "Unknown keyboard usage" =>
                           actions'[i].code \in reported \ mapped
                 /\ key_states' \cap Range(USAGE_TO_EVKEY) = {USAGE_TO_EVKEY[u] : u \in mapped}
                 /\ DOMAIN key_press_times' \subseteq {USAGE_TO_EVKEY[u] : u \in mapped}
                 /\ \A i \in DOMAIN sink' :
                       sink'[i].kind = "press" =>
                           sink'[i].code \in {USAGE_TO_EVKEY[u] : u \in mapped}
                                             \cup Range(MOD_BITS_TO_EVKEY)
       /\ ( /\ ConsumerStep
            /\ ConsumerUsage(out'.payload) # 0
            /\ ConsumerUsage(out'.payload) \notin DOMAIN MEDIA_USAGE_TO_EVKEY )
          => /\ actions' = <<Action("Unknown media usage", ConsumerUsage(out'.payload), <<>>)>>
             /\ sink' = <<>>
             /\ UNCHANGED trackingVars]_vars

\* C29 witness: a keyboard report with usage 3 (no keycode) and usage 4 (KEY_A)
\* produced one diagnostic for usage 3 and pressed KEY_A.
C29_Witness ==
    /\ out.report_type = "keyboard"
    /\ 3 \in ReportedUsages(out.payload) /\ 4 \in ReportedUsages(out.payload)
    /\ CountActions(actions, "Unknown keyboard usage", 3) = 1
    /\ CountActions(actions, "Pressed", KEY_A) = 1
    /\ KEY_A \in key_states

\* C30: when a sink call raised while a notification was decoded, the next thing
\* that happens is the end of the connection with every tracking set and map
\* reset; no further notification is decoded on that connection.
C30_SinkFailureEndsConnection ==
    [][(connected /\ out.sink_raised) =>
          /\ ~connected'
          /\ key_states' = {}
          /\ current_modifiers' = {}
          /\ \A s \in Sources :
                media_pressed_by_source'[s] = {} /\ system_pressed_by_source'[s] = {}]_vars

(***************************************************************************)
(* Claims C31..C40.                                                        *)
(***************************************************************************)
\* C34: when no sink call raises, decode_hid_report_and_inject completes without
\* raising, whatever the category of the report (explicit or inferred) and
\* whatever the length of the payload, the empty payload included.
C34_DecodeNeverRaises ==
    (out.source # None /\ ~out.sink_raised) => ~out.raised

(***************************************************************************)
(* Triggers-only mode: the bridge started with --triggers, next to the     *)
(* same notifications decoded by a bridge started without it.              *)
(***************************************************************************)
\* main() with --triggers: no uinput device; the rule table is the parsed file,
\* or empty when the file named does not exist
ModeInit ==
    /\ ui = FALSE
    /\ triggers \in {RuleTable, <<>>}
    /\ BridgeStart
    /\ rdefs = NoDefinitions
    /\ rdata = <<>>
    /\ rres = Unresolved

ModeNext ==
    \/ Connect
    \/ \E source \in Sources : \E data \in DevicePayloads(device) : Decode(source, data)
    \/ Tick
    \/ Cleanup

ModeSpec == ModeInit /\ [][ModeNext]_vars

\* main() without --triggers: both uinput devices exist and triggers stays []
SinksPresent(st) == [st EXCEPT !.ui = TRUE, !.rules = <<>>]

\* the notification of this step decoded from the same state by the bridge with sinks
WithSinks(held_order, usage_order) ==
    decode_hid_report_and_inject(SinksPresent(St), report_definitions, out'.source,
        out'.data, ExplicitType(report_definitions, out'.source), held_order, usage_order)

\* the pressed sets and the timestamps after this step are those of r
SameTracking(r) ==
    /\ key_states' = r.key_states
    /\ key_press_times' = r.key_press_times
    /\ current_modifiers' = r.current_modifiers
    /\ media_pressed_by_source' = r.media_pressed_by_source
    /\ media_press_times' = r.media_press_times
    /\ system_pressed_by_source' = r.system_pressed_by_source
    /\ system_press_times' = r.system_press_times
    /\ observed_mouse_lengths' = r.observed_mouse_lengths

\* the set iteration orders the decode of this step can take
StepOrders ==
    LET cat == Categorize(report_definitions, out'.data,
                          ExplicitType(report_definitions, out'.source))
    IN  Orders(HeldToIterate(St, out'.source, cat)) \X Orders(UsagesToIterate(cat))

\* C36 as stated: in triggers-only mode no press, release or motion reaches a
\* sink, and every notification leaves the pressed sets, the timestamps, the
\* emitted actions and the dispatched commands that the bridge with sinks leaves
\* when it decodes the same notification from the same state.
C36_SameAsWithSinks ==
    [][(out'.source # None /\ ~ui) =>
          /\ sink' = <<>>
          /\ \E o \in StepOrders :
                \E r \in {WithSinks(o[1], o[2])} :
                   /\ SameTracking(r)
                   /\ actions' = r.actions
                   /\ commands' = r.commands]_vars

\* C36 amended: in triggers-only mode no press, release or motion reaches a sink,
\* and every notification leaves the pressed sets, the timestamps and the emitted
\* actions that the bridge with sinks leaves when it decodes the same
\* notification from the same state; the bridge with sinks dispatches no command.
C36_SameStateAndActions ==
    [][(out'.source # None /\ ~ui) =>
          /\ sink' = <<>>
          /\ \E o \in StepOrders :
                \E r \in {WithSinks(o[1], o[2])} :
                   /\ SameTracking(r)
                   /\ actions' = r.actions
                   /\ r.commands = <<>>]_vars

\* C36 witness: in triggers-only mode the release of volume-up after a short
\* press dispatched its command and nothing reached a sink.
C36_Witness ==
    /\ ~ui
    /\ out.report_type = "consumer"
    /\ CountActions(actions, "Released", KEY_VOLUMEUP) = 1
    /\ commands = <<"vol-short">>
    /\ sink = <<>>
    /\ media_pressed_by_source[out.source] = {}

(***************************************************************************)
(* The event loop of one connection: every notification becomes a task,    *)
(* the tasks take their first step in the order they were created, and a   *)
(* task is suspended only while create_subprocess_shell starts a command.  *)
(***************************************************************************)
\* at most MaxTasks notifications arrive
MaxTasks == 3

\* a volume-up press and the release of all media keys
LoopPayloads == {<<233, 0>>, <<0, 0>>}

\* what a step that decodes no notification leaves alone in the bridge
BridgeIdle ==
    /\ NoNotification
    /\ UNCHANGED <<ui, triggers, device, connected, report_definitions, now, sinkDown,
                   prev_modifiers_byte, observed_mouse_lengths>>
    /\ UNCHANGED trackingVars
    /\ UNCHANGED resolverVars
    /\ UNCHANGED <<tcall, mouse_samples, pstate>>

LoopInit ==
    /\ ui = FALSE
    /\ triggers = LoopRules
    /\ BridgeStart
    /\ device = "remote"
    /\ rdefs = NoDefinitions
    /\ rdata = <<>>
    /\ rres = Unresolved

\* lambda _, data: asyncio.create_task(decode_hid_report_and_inject(...)): the
\* coroutine is scheduled, none of its statements has run
Notify(source, data) ==
    /\ connected
    /\ Len(loop.tasks) < MaxTasks
    /\ loop' = [loop EXCEPT !.tasks = Append(@, [source |-> source, data |-> data,
                                                 pc |-> "ready", cmds |-> <<>>,
                                                 next |-> 1])]
    /\ BridgeIdle
    /\ UNCHANGED <<tfile, life, pairing>>

\* the tasks whose first step is due
ReadyTasks == {i \in 1..Len(loop.tasks) : loop.tasks[i].pc = "ready"}

\* mutant: the event loop picks any scheduled task
AnyReady == ReadyTasks

\* the ready queue of the event loop is first in, first out
NextReady == {i \in ReadyTasks : \A j \in ReadyTasks : i <= j}

\* the first step of a task: decode_hid_report_and_inject runs from its first
\* statement to the first await that suspends, the create_subprocess_shell of the
\* first command; a notification without commands runs to its end
RunTask ==
    \E i \in NextReady :
       /\ DecodeStep(loop.tasks[i].source, loop.tasks[i].data, 0)
       /\ loop' = [loop EXCEPT !.tasks[i].cmds = commands',
                               !.tasks[i].pc = IF commands' = <<>> THEN "done"
                                               ELSE "spawning"]
       /\ UNCHANGED mouse_samples

\* the state of a task after execute_trigger_command returned for its command
\* numbered next: the for loop goes on with the following command
AfterCommand(task) ==
    [task EXCEPT !.next = @ + 1,
                 !.pc = IF task.next = Len(task.cmds) THEN "done" ELSE "spawning"]

\* mutant: a command that failed to start is tried again
AfterFailureRetries(task) == task

\* except Exception as e: the failure is logged and execute_trigger_command returns
AfterFailure(task) == AfterCommand(task)

\* create_subprocess_shell returned a process: the task is resumed, logs the
\* pid and does not wait for the process
SpawnReturns(i) ==
    /\ loop.tasks[i].pc = "spawning"
    /\ loop' = [loop EXCEPT
                   !.spawned = Append(@, [task |-> i, k |-> loop.tasks[i].next,
                                          command |-> loop.tasks[i].cmds[loop.tasks[i].next],
                                          result |-> "running"]),
                   !.tasks[i] = AfterCommand(@)]
    /\ BridgeIdle
    /\ UNCHANGED <<tfile, life, pairing>>

\* create_subprocess_shell raised: the task is resumed in the except clause
SpawnFails(i) ==
    /\ loop.tasks[i].pc = "spawning"
    /\ Len(loop.spawned) < 2 * MaxTasks
    /\ loop' = [loop EXCEPT
                   !.spawned = Append(@, [task |-> i, k |-> loop.tasks[i].next,
                                          command |-> loop.tasks[i].cmds[loop.tasks[i].next],
                                          result |-> "failed"]),
                   !.tasks[i] = AfterFailure(@)]
    /\ BridgeIdle
    /\ UNCHANGED <<tfile, life, pairing>>

\* a started command ends; nothing in the bridge waits for it
ProcessExits(k) ==
    /\ loop.spawned[k].result = "running"
    /\ loop' = [loop EXCEPT !.spawned[k].result = "exited"]
    /\ BridgeIdle
    /\ UNCHANGED <<tfile, life, pairing>>

LoopNext ==
    \/ Connect
    \/ \E source \in Sources : \E data \in LoopPayloads : Notify(source, data)
    \/ RunTask
    \/ \E i \in 1..Len(loop.tasks) : SpawnReturns(i)
    \/ \E i \in 1..Len(loop.tasks) : SpawnFails(i)
    \/ \E k \in 1..Len(loop.spawned) : ProcessExits(k)
    \/ Tick

LoopSpec == LoopInit /\ [][LoopNext]_vars

\* the tasks whose decode has run
Decoded == {i \in 1..Len(loop.tasks) : loop.tasks[i].pc # "ready"}

\* C31: the notifications of one source are decoded in arrival order and one at
\* a time: a notification is decoded only when every earlier notification of its
\* source has been decoded, and a step that continues an earlier notification,
\* which is then dispatching its commands, reads and writes no pressed set and
\* no timestamp and calls no sink.
C31_ArrivalOrderOneAtATime ==
    [][/\ \A j \in 1..Len(loop.tasks) :
             (j \in ReadyTasks /\ loop'.tasks[j].pc # "ready") =>
                /\ out'.source = loop.tasks[j].source
                /\ out'.data = loop.tasks[j].data
                /\ \A i \in 1..(j - 1) :
                      loop.tasks[i].source = loop.tasks[j].source => i \in Decoded
       /\ (Len(loop'.tasks) = Len(loop.tasks) /\ \A j \in ReadyTasks : loop'.tasks[j].pc = "ready")
             => /\ UNCHANGED trackingVars
                /\ UNCHANGED observed_mouse_lengths
                /\ sink' = <<>>
                /\ out' = Idle]_vars

\* C31 witness: a notification of HID-1 released volume-up and is suspended in
\* the dispatch of its first command, and the next notification of HID-1 was
\* decoded and pressed volume-up again.
C31_Witness ==
    \E i, j \in 1..Len(loop.tasks) :
       /\ i < j
       /\ loop.tasks[i].source = "HID-1" /\ loop.tasks[j].source = "HID-1"
       /\ loop.tasks[i].pc = "spawning" /\ loop.tasks[i].next = 1
       /\ Len(loop.tasks[i].cmds) = 2
       /\ out.source = "HID-1" /\ out.data = loop.tasks[j].data
       /\ j \in Decoded
       /\ CountActions(actions, "Pressed", KEY_VOLUMEUP) = 1
       /\ KEY_VOLUMEUP \in media_pressed_by_source["HID-1"]

\* C32: command dispatch is fire-and-forget: whatever became of the commands
\* dispatched so far (still running, ended, or failed to start), the next
\* notification that arrived can be decoded, and no command of a notification is
\* started a second time, in particular not one that failed to start.
C32_FireAndForget ==
    /\ (connected /\ ReadyTasks # {}) => ENABLED RunTask
    /\ \A a, b \in 1..Len(loop.spawned) :
          (loop.spawned[a].task = loop.spawned[b].task /\ loop.spawned[a].k = loop.spawned[b].k)
             => a = b

\* C32 witness: a notification was decoded in this step although a command of an
\* earlier notification failed to start and another one is still running.
C32_Witness ==
    /\ out.source # None
    /\ \E j \in Decoded :
          /\ \A i \in Decoded : i <= j
          /\ \E a, b \in 1..Len(loop.spawned) :
                /\ loop.spawned[a].result = "failed" /\ loop.spawned[a].task < j
                /\ loop.spawned[b].result = "running" /\ loop.spawned[b].task < j

(***************************************************************************)
(* parse_triggers_file on its own: a file is drawn, then the function      *)
(* reads it line by line.  A line is a sequence of characters.             *)
(***************************************************************************)
\* drawn lines have at most MaxLineLen characters
MaxLineLen == 5
\* drawn files of prepared lines have at most MaxLines lines
MaxLines == 3

\* the characters of the drawn lines: blank, comment sign, key separator, a
\* digit and a letter
LineChars == {" ", "#", "+", "1", "k"}

\* str.isspace
IsSpace(c) == c = " "

DigitValue == ("0" :> 0) @@ ("1" :> 1) @@ ("2" :> 2)

\* str.lstrip() / str.rstrip() / str.strip()
RECURSIVE LStrip(_)
LStrip(s) == IF s # <<>> /\ IsSpace(Head(s)) THEN LStrip(Tail(s)) ELSE s

RECURSIVE RStrip(_)
RStrip(s) ==
    IF s # <<>> /\ IsSpace(s[Len(s)]) THEN RStrip(SubSeq(s, 1, Len(s) - 1)) ELSE s

Strip(s) == RStrip(LStrip(s))

\* the characters of s before its first whitespace, and s from there on
RECURSIVE FirstWord(_)
FirstWord(s) ==
    IF s = <<>> \/ IsSpace(Head(s)) THEN <<>> ELSE <<Head(s)>> \o FirstWord(Tail(s))

AfterFirstWord(s) == SubSeq(s, Len(FirstWord(s)) + 1, Len(s))

\* str.split(None, maxsplit): words separated by runs of whitespace; after
\* maxsplit words the rest of the string, without its leading whitespace, is
\* the last part
RECURSIVE SplitNone(_, _)
SplitNone(s, maxsplit) ==
    LET t == LStrip(s)
    IN  IF t = <<>> THEN <<>>
        ELSE IF maxsplit = 0 THEN <<t>>
        ELSE <<FirstWord(t)>> \o SplitNone(AfterFirstWord(t), maxsplit - 1)

\* the value of a string of decimal digits
RECURSIVE DigitsValue(_)
DigitsValue(s) ==
    IF s = <<>> THEN 0 ELSE 10 * DigitsValue(SubSeq(s, 1, Len(s) - 1)) + DigitValue[s[Len(s)]]

\* int(s): an optional sign and at least one digit, else ValueError
IntOf(s) ==
    LET signed == s # <<>> /\ s[1] \in {"+", "-"}
        digits == IF signed THEN Tail(s) ELSE s
    IN  IF digits = <<>> \/ \E i \in 1..Len(digits) : digits[i] \notin DOMAIN DigitValue
        THEN [ok |-> FALSE, value |-> 0]
        ELSE [ok |-> TRUE,
              value |-> IF signed /\ s[1] = "-" THEN 0 - DigitsValue(digits)
                        ELSE DigitsValue(digits)]

\* str.split(sep) for a one-character separator
RECURSIVE SplitOn(_, _)
SplitOn(s, sep) ==
    IF \A i \in 1..Len(s) : s[i] # sep THEN <<s>>
    ELSE LET p == CHOOSE i \in 1..Len(s) : s[i] = sep /\ \A j \in 1..(i - 1) : s[j] # sep
         IN  <<SubSeq(s, 1, p - 1)>> \o SplitOn(SubSeq(s, p + 1, Len(s)), sep)

\* the body of the for loop for one line: the rules this line appends
LineRules(raw) ==
    LET line == Strip(raw)
        parts == SplitNone(line, 2)
    IN  IF line = <<>> \/ Head(line) = "#" THEN <<>>
        ELSE IF Len(parts) < 3 THEN <<>>
        ELSE IF ~IntOf(parts[2]).ok THEN <<>>
        ELSE << [keys |-> SplitOn(parts[1], "+"), value |-> IntOf(parts[2]).value,
                 command |-> parts[3]] >>

\* the text of a prepared line
Chars(str) ==
    IF str = "comment" THEN <<"#", " ", "k", " ", "1", " ", "k">>
    ELSE IF str = "indented comment" THEN <<" ", "#", "k", " ", "1", " ", "k">>
    ELSE IF str = "blank" THEN <<" ", " ">>
    ELSE IF str = "two fields" THEN <<"k", " ", "1">>
    ELSE IF str = "bad value" THEN <<"k", " ", "k", " ", "k">>
    ELSE IF str = "plain" THEN <<"k", " ", "1", " ", "k">>
    ELSE IF str = "modifier" THEN <<"k", "+", "k", " ", " ", "2", " ", "k", " ", " ", "k", " ">>
    ELSE <<"k", " ", "1", "2", " ", "#", "k">>

PreparedLines ==
    {Chars(n) : n \in {"comment", "indented comment", "blank", "two fields",
                       "bad value", "plain", "modifier", "twelve"}}

\* the files drawn: every line of up to MaxLineLen characters on its own, and
\* every file of up to MaxLines prepared lines
TriggerFiles ==
    {<<l>> : l \in UNION {[1..n -> LineChars] : n \in 0..MaxLineLen}}
    \cup UNION {[1..n -> PreparedLines] : n \in 0..MaxLines}

\* parsed_triggers = [] before 'with open(filepath)'; readable is whether open
\* and the reads succeed
FileStart(lines, readable) ==
    [done |-> FALSE, lines |-> lines, readable |-> readable, i |-> 1,
     parsed_triggers |-> <<>>]

FileInit ==
    /\ ui = FALSE
    /\ triggers = <<>>
    /\ BridgeStart
    /\ device = "keyboard"
    /\ rdefs = NoDefinitions
    /\ rdata = <<>>
    /\ rres = Unresolved

\* mutant: a line that gives no rule ends the loop
NextLineStopsAtInvalid(t) ==
    [t EXCEPT !.parsed_triggers = @ \o LineRules(t.lines[t.i]),
              !.i = IF LineRules(t.lines[t.i]) = <<>> THEN Len(t.lines) + 1 ELSE @ + 1]

\* one iteration of 'for line_num, line in enumerate(f, 1)'
NextLine(t) ==
    [t EXCEPT !.parsed_triggers = @ \o LineRules(t.lines[t.i]), !.i = @ + 1]

FileFrame ==
    /\ BridgeIdle
    /\ UNCHANGED <<loop, life, pairing>>

\* parse_triggers_file(filepath) is called
FileOpen ==
    /\ tfile = NoFile
    /\ \E lines \in TriggerFiles, readable \in BOOLEAN :
          tfile' = FileStart(lines, readable)
    /\ FileFrame

\* open raised: 'except Exception' logs it and parsed_triggers is returned
FileOpenFails ==
    /\ ~tfile.done /\ ~tfile.readable
    /\ tfile' = [tfile EXCEPT !.done = TRUE]
    /\ FileFrame

FileLine ==
    /\ ~tfile.done /\ tfile.readable
    /\ tfile.i <= Len(tfile.lines)
    /\ tfile' = NextLine(tfile)
    /\ FileFrame

\* the file is exhausted: return parsed_triggers
FileReturn ==
    /\ ~tfile.done /\ tfile.readable
    /\ tfile.i > Len(tfile.lines)
    /\ tfile' = [tfile EXCEPT !.done = TRUE]
    /\ FileFrame

FileNext == FileOpen \/ FileOpenFails \/ FileLine \/ FileReturn

FileSpec == FileInit /\ [][FileNext]_vars

\* where the whitespace-separated fields of a line start and end
FieldStarts(line) ==
    {i \in 1..Len(line) : ~IsSpace(line[i]) /\ (i = 1 \/ IsSpace(line[i - 1]))}

FieldEnds(line) ==
    {i \in 1..Len(line) : ~IsSpace(line[i]) /\ (i = Len(line) \/ IsSpace(line[i + 1]))}

\* the n-th smallest number of a set
NthOf(S, n) == CHOOSE x \in S : Cardinality({y \in S : y < x}) = n - 1

FieldOf(line, n) == SubSeq(line, NthOf(FieldStarts(line), n), NthOf(FieldEnds(line), n))

\* the field is the text of an integer: digits, with or without a sign
IsIntegerText(tok) ==
    LET first == IF tok[1] \in {"+", "-"} THEN 2 ELSE 1
    IN  /\ first <= Len(tok)
        /\ \A i \in first..Len(tok) : tok[i] \in {"0", "1", "2"}

RECURSIVE ValueFromLeft(_, _)
ValueFromLeft(tok, acc) ==
    IF tok = <<>> THEN acc
    ELSE IF Head(tok) = "+" THEN ValueFromLeft(Tail(tok), acc)
    ELSE ValueFromLeft(Tail(tok), 10 * acc + (IF Head(tok) = "1" THEN 1
                                               ELSE IF Head(tok) = "2" THEN 2 ELSE 0))

\* the names between the '+' signs of the first field
KeyNames(tok) ==
    LET cuts == {0, Len(tok) + 1} \cup {i \in 1..Len(tok) : tok[i] = "+"}
    IN  [n \in 1..(Cardinality(cuts) - 1) |->
            SubSeq(tok, NthOf(cuts, n) + 1, NthOf(cuts, n + 1) - 1)]

\* a line that is neither blank nor a comment, has three fields or more and an
\* integer as its second field
IsRuleLine(line) ==
    /\ Cardinality(FieldStarts(line)) >= 3
    /\ FieldOf(line, 1)[1] # "#"
    /\ IsIntegerText(FieldOf(line, 2))

\* the rule such a line stands for: the command runs from the third field to
\* the end of the last field
RuleOfLine(line) ==
    [keys |-> KeyNames(FieldOf(line, 1)),
     value |-> ValueFromLeft(FieldOf(line, 2), 0),
     command |-> SubSeq(line, NthOf(FieldStarts(line), 3),
                        NthOf(FieldEnds(line), Cardinality(FieldEnds(line))))]

RECURSIVE RulesOfLines(_)
RulesOfLines(lines) ==
    IF lines = <<>> THEN <<>>
    ELSE (IF IsRuleLine(Head(lines)) THEN <<RuleOfLine(Head(lines))>> ELSE <<>>)
         \o RulesOfLines(Tail(lines))

\* C33: parse_triggers_file returns, in file order, exactly one rule (key list
\* split on '+', integer event value, command = remainder of the line) for every
\* line with three whitespace-separated fields and an integer second field;
\* blank lines, comment lines, lines with fewer than three fields and lines with
\* a non-integer value contribute nothing and do not stop the load; a file that
\* cannot be opened yields the empty list.
C33_OneRulePerValidLine ==
    tfile # NoFile =>
       /\ tfile.parsed_triggers =
             IF tfile.readable THEN RulesOfLines(SubSeq(tfile.lines, 1, tfile.i - 1))
             ELSE <<>>
       /\ (tfile.done /\ tfile.readable) => tfile.i = Len(tfile.lines) + 1

\* C33 witness: a file of three lines was read to its end; the first line has a
\* non-integer value and gave nothing, the second gave a rule with two key
\* names, value 2 and a command of two words, the third gave a rule with value 12.
C33_Witness ==
    /\ tfile # NoFile /\ tfile.done /\ tfile.readable
    /\ tfile.lines = <<Chars("bad value"), Chars("modifier"), Chars("twelve")>>
    /\ tfile.parsed_triggers =
          << [keys |-> << <<"k">>, <<"k">> >>, value |-> 2,
              command |-> <<"k", " ", " ", "k">>],
             [keys |-> << <<"k">> >>, value |-> 12, command |-> <<"#", "k">>] >>

(***************************************************************************)
(* main(): the reconnect loop, the stop event, the signal handler and the  *)
(* notification handler task of the connection.                            *)
(***************************************************************************)
\* main() makes at most MaxAttempts connection attempts
MaxAttempts == 3

\* the signals handle_sigint is installed for
Signals == {"SIGINT", "SIGTERM", "SIGQUIT", "SIGHUP"}

\* main() reached 'while not stop_loop'; handler is the notification_handler
\* task: none, created, running, or ended by an exception of start_notify
LifeStart ==
    [pc |-> "test", stop_event |-> FALSE, stop_loop |-> FALSE, handler |-> "none",
     attempts |-> 0, cleanups |-> 0, stop_signal |-> FALSE]

LifeInit ==
    /\ ui = FALSE
    /\ triggers = LoopRules
    /\ BridgeStart
    /\ device = "remote"
    /\ rdefs = NoDefinitions
    /\ rdata = <<>>
    /\ rres = Unresolved

LifeFrame ==
    /\ BridgeIdle
    /\ UNCHANGED <<loop, tfile, pairing>>

\* the signal handlers are installed and the loop is entered
LifeBegin ==
    /\ life = NoLife
    /\ life' = LifeStart
    /\ LifeFrame

\* while not stop_loop:
LoopTest ==
    /\ life.pc = "test"
    /\ life.stop_loop \/ life.attempts < MaxAttempts
    /\ life' = IF life.stop_loop THEN [life EXCEPT !.pc = "left"]
               ELSE [life EXCEPT !.pc = "connect", !.attempts = @ + 1]
    /\ LifeFrame

\* await client.connect() succeeded; the report map is read, the notification
\* handler task is created and main() waits for stop_event
ConnectOk ==
    /\ life.pc = "connect"
    /\ life' = [life EXCEPT !.pc = "wait", !.handler = "created"]
    /\ connected' = TRUE
    /\ report_definitions' \in {ReportMap(device), NoDefinitions}
    /\ NoNotification
    /\ UNCHANGED <<ui, triggers, device, now, sinkDown, prev_modifiers_byte,
                   observed_mouse_lengths>>
    /\ UNCHANGED trackingVars
    /\ UNCHANGED resolverVars
    /\ UNCHANGED <<tcall, mouse_samples, pstate, loop, tfile, pairing>>

\* client.connect() raised: one of the except clauses logs "Will retry..."
ConnectFails ==
    /\ life.pc = "connect"
    /\ life' = [life EXCEPT !.pc = "cleanup"]
    /\ LifeFrame

\* notification_handler: await client.start_notify(...) returns, or raises a
\* BleakDBusError, or raises another exception; only CancelledError is caught
\* there, so an exception ends the task and stays in it
HandlerStep ==
    /\ life.pc = "wait"
    /\ life.handler = "created"
    /\ \E h \in {"running", "dbus_error", "error"} : life' = [life EXCEPT !.handler = h]
    /\ LifeFrame

\* a notification while the handler is subscribed
LifeDecode(source, data) ==
    /\ life.pc = "wait" /\ life.handler = "running"
    /\ Decode(source, data)

\* disconnected_callback(client): stop_event.set()
Disconnected ==
    /\ life.pc = "wait" /\ connected
    /\ life' = [life EXCEPT !.stop_event = TRUE]
    /\ connected' = FALSE
    /\ NoNotification
    /\ UNCHANGED <<ui, triggers, device, report_definitions, now, sinkDown,
                   prev_modifiers_byte, observed_mouse_lengths>>
    /\ UNCHANGED trackingVars
    /\ UNCHANGED resolverVars
    /\ UNCHANGED <<tcall, mouse_samples, pstate, loop, tfile, pairing>>

\* handle_sigint(signum, frame)
Signal(signum) ==
    /\ life.pc \in {"test", "connect", "wait", "cleanup", "sleep"}
    /\ life' = [life EXCEPT !.stop_event = TRUE,
                            !.stop_loop = IF signum # "SIGHUP" THEN TRUE ELSE @,
                            !.stop_signal = IF signum # "SIGHUP" THEN TRUE ELSE @]
    /\ LifeFrame

\* await stop_event.wait() returns
WaitReturns ==
    /\ life.pc = "wait" /\ life.stop_event
    /\ life' = [life EXCEPT !.pc = "cleanup"]
    /\ LifeFrame

\* finally: await cleanup(client, notification_tasks): 'await task' re-raises the
\* exception of a task that ended with one; CancelledError and BleakDBusError
\* are caught, any other leaves cleanup, the finally clause and main()
CleanupRaises ==
    /\ life.pc = "cleanup"
    /\ life.handler = "error"
    /\ life' = [life EXCEPT !.pc = "raised"]
    /\ LifeFrame

\* cleanup cancels the task, disconnects and clears the tracking state
CleanupDone ==
    /\ life.pc = "cleanup"
    /\ life.handler # "error"
    /\ life' = [life EXCEPT !.pc = "sleep", !.handler = "none", !.cleanups = @ + 1]
    /\ connected' = FALSE
    /\ key_states' = {}
    /\ media_pressed_by_source' = [s \in Sources |-> {}]
    /\ system_pressed_by_source' = [s \in Sources |-> {}]
    /\ current_modifiers' = {}
    /\ key_press_times' = EmptyDict
    /\ media_press_times' = EmptyDict
    /\ system_press_times' = EmptyDict
    /\ prev_modifiers_byte' = 0
    /\ NoNotification
    /\ UNCHANGED <<ui, triggers, device, report_definitions, now, sinkDown,
                   observed_mouse_lengths>>
    /\ UNCHANGED resolverVars
    /\ UNCHANGED <<tcall, mouse_samples, pstate, loop, tfile, pairing>>

\* await asyncio.sleep(3); stop_event.clear()
SleepDone ==
    /\ life.pc = "sleep"
    /\ life' = [life EXCEPT !.pc = "test", !.stop_event = FALSE]
    /\ LifeFrame

LifeNext ==
    \/ LifeBegin
    \/ LoopTest
    \/ ConnectOk
    \/ ConnectFails
    \/ HandlerStep
    \/ \E source \in Sources : \E data \in LoopPayloads : LifeDecode(source, data)
    \/ Disconnected
    \/ \E signum \in Signals : Signal(signum)
    \/ WaitReturns
    \/ CleanupRaises
    \/ CleanupDone
    \/ SleepDone

LifeSpec == LifeInit /\ [][LifeNext]_vars

\* C35: every connection attempt is followed by cleanup before the next attempt
\* starts; when the wait ends (device disconnect, SIGHUP) the bridge cleans up,
\* which ends the connection and resets the tracking state, and then attempts to
\* connect again unless a stop signal was received; the loop is left only after
\* SIGINT, SIGTERM or SIGQUIT; after such a signal no connection attempt starts.
C35_Lifecycle ==
    [][life # NoLife =>
          /\ life'.attempts > life.attempts =>
                (life.cleanups = life.attempts /\ ~life.stop_signal)
          /\ (life.pc = "wait" /\ life'.pc # "wait") => life'.pc = "cleanup"
          /\ (life.pc = "cleanup" /\ life'.pc # "cleanup") =>
                /\ life'.pc = "sleep"
                /\ ~connected'
                /\ AllTrackingEmpty'
          /\ (life.pc = "sleep" /\ life'.pc # "sleep") => life'.pc = "test"
          /\ (life.pc = "test" /\ life'.pc # "test") =>
                (life'.pc = "connect" <=> ~life.stop_signal)
          /\ life'.pc \in {"left", "raised"} => life'.stop_signal]_vars

(***************************************************************************)
(* le_auto_pair.py: STATE, the sources of the GLib main loop (idle         *)
(* callbacks, retry timers, the 60 s timeout), the D-Bus signals and the   *)
(* replies to Pair().                                                      *)
(***************************************************************************)
\* at most MaxAdded InterfacesAdded signals arrive while the main loop runs
MaxAdded == 2
\* at most MaxPairCalls Pair() calls are made
MaxPairCalls == 3
\* at most MaxIdle idle callbacks are queued
MaxIdle == 3

\* the devices that match --device-name or --device-mac
PairDevices == {"dev_A", "dev_B"}

\* STATE and the main loop after main() has set up the bus, the agent and the
\* signal receivers; known are the matching devices of GetManagedObjects()
PairStart(known) ==
    [phase |-> "startup", known |-> known, device_path |-> None,
     power_cycled |-> FALSE, pair_attempted |-> FALSE, paired |-> FALSE,
     idle |-> <<>>, retry_timers |-> 0, timeout_pending |-> FALSE, in_flight |-> 0,
     cycles |-> 0, pair_calls |-> 0, errors |-> 0, added |-> 0, completed |-> FALSE,
     timed_out |-> FALSE, exit_status |-> None]

\* pair_now(bus) does not return at its first line
WouldPair(p) == p.device_path # None /\ ~p.pair_attempted /\ ~p.paired

\* mutant: pair_now without the pair_attempted test
PairNowUnguarded(p, immediate) ==
    IF p.device_path = None \/ p.paired THEN p
    ELSE IF immediate
    THEN [p EXCEPT !.pair_attempted = FALSE, !.pair_calls = @ + 1, !.errors = @ + 1,
                   !.retry_timers = @ + 1]
    ELSE [p EXCEPT !.pair_attempted = TRUE, !.pair_calls = @ + 1, !.in_flight = @ + 1]

\* pair_now(bus): Pair() is sent with a reply and an error handler, or raises
\* a DBusException at once (immediate), which starts the retry timer
pair_now(p, immediate) ==
    IF ~WouldPair(p) THEN p
    ELSE IF immediate
    THEN [p EXCEPT !.pair_attempted = FALSE, !.pair_calls = @ + 1, !.errors = @ + 1,
                   !.retry_timers = @ + 1]
    ELSE [p EXCEPT !.pair_attempted = TRUE, !.pair_calls = @ + 1, !.in_flight = @ + 1]

\* power_cycle_adapter(bus): Powered off, sleep, Powered on; a failed Set is
\* logged and the cycle counts as done
power_cycle_adapter(p) ==
    [p EXCEPT !.power_cycled = TRUE, !.cycles = @ + 1]

\* cleanup_and_exit(bus): disconnect, print, stop discovery, unregister the
\* agent, STATE['loop'].quit()
cleanup_and_exit(p) == [p EXCEPT !.phase = "quit"]

\* on_interfaces_added for a device that matches
on_interfaces_added(p, path, immediate) ==
    LET q == [p EXCEPT !.device_path = path]
    IN  IF ~q.power_cycled THEN [q EXCEPT !.idle = Append(@, "power_cycle")]
        ELSE IF ~q.pair_attempted /\ ~q.paired THEN pair_now(q, immediate)
        ELSE q

\* on_properties_changed for the Paired property of a device
on_properties_changed(p, path, value) ==
    IF path = p.device_path /\ value
    THEN [p EXCEPT !.paired = TRUE, !.completed = TRUE, !.idle = Append(@, "cleanup")]
    ELSE p

PairInit ==
    /\ ui = FALSE
    /\ triggers = <<>>
    /\ BridgeStart
    /\ device = "remote"
    /\ rdefs = NoDefinitions
    /\ rdata = <<>>
    /\ rres = Unresolved

PairFrame ==
    /\ BridgeIdle
    /\ UNCHANGED <<loop, tfile, life>>

\* main() up to GetManagedObjects()
PairBegin ==
    /\ pairing = NoPairing
    /\ \E known \in SUBSET PairDevices : pairing' = PairStart(known)
    /\ PairFrame

\* main(): "If the device is already known, treat it as added"; objs.items()
\* is iterated in any order
KnownAdded(path) ==
    /\ pairing.phase = "startup"
    /\ path \in pairing.known
    /\ pairing' = [on_interfaces_added(pairing, path, FALSE) EXCEPT !.known = @ \ {path}]
    /\ PairFrame

\* main(): the loop over the known devices is done; the 60 s timeout is added
\* and loop.run() is entered
RunLoop ==
    /\ pairing.phase = "startup"
    /\ pairing.known = {}
    /\ pairing' = [pairing EXCEPT !.phase = "running", !.timeout_pending = TRUE]
    /\ PairFrame

\* an InterfacesAdded signal for a matching device is dispatched
InterfacesAdded(path) ==
    /\ pairing.phase = "running"
    /\ pairing.added < MaxAdded
    /\ Len(pairing.idle) < MaxIdle
    /\ pairing.pair_calls < MaxPairCalls
    /\ \E immediate \in BOOLEAN :
          pairing' = [on_interfaces_added(pairing, path, immediate) EXCEPT !.added = @ + 1]
    /\ PairFrame

\* the main loop runs its oldest idle callback
IdleRuns ==
    /\ pairing.phase = "running"
    /\ pairing.idle # <<>>
    /\ pairing' = IF Head(pairing.idle) = "power_cycle"
                  THEN power_cycle_adapter([pairing EXCEPT !.idle = Tail(@)])
                  ELSE cleanup_and_exit([pairing EXCEPT !.idle = Tail(@)])
    /\ PairFrame

\* reply_handler ok(): Pair() completed
PairReplyOk ==
    /\ pairing.phase = "running"
    /\ pairing.in_flight > 0
    /\ Len(pairing.idle) < MaxIdle
    /\ pairing' = [pairing EXCEPT !.in_flight = @ - 1, !.paired = TRUE,
                                  !.completed = TRUE, !.idle = Append(@, "cleanup")]
    /\ PairFrame

\* error_handler err(e): pair_attempted is reset and the retry timer is added
PairReplyError ==
    /\ pairing.phase = "running"
    /\ pairing.in_flight > 0
    /\ pairing' = [pairing EXCEPT !.in_flight = @ - 1, !.errors = @ + 1,
                                  !.pair_attempted = FALSE, !.retry_timers = @ + 1]
    /\ PairFrame

\* GLib.timeout_add(1500, lambda: (pair_now(bus), False)[1]) fires
RetryTimer ==
    /\ pairing.phase = "running"
    /\ pairing.retry_timers > 0
    /\ WouldPair(pairing) => pairing.pair_calls < MaxPairCalls
    /\ \E immediate \in BOOLEAN :
          pairing' = pair_now([pairing EXCEPT !.retry_timers = @ - 1], immediate)
    /\ PairFrame

\* a PropertiesChanged signal with Paired for a matching device is dispatched
PairedChanged(path, value) ==
    /\ pairing.phase = "running"
    /\ Len(pairing.idle) < MaxIdle
    /\ pairing' = on_properties_changed(pairing, path, value)
    /\ PairFrame

\* mutant: the timeout only logs its warning
TimeoutLogsOnly(p) == [p EXCEPT !.timeout_pending = FALSE, !.timed_out = TRUE]

\* the lambda of GLib.timeout_add_seconds(60, ...): warning, cleanup_and_exit
TimeoutBody(p) ==
    cleanup_and_exit([p EXCEPT !.timeout_pending = FALSE, !.timed_out = TRUE])

TimeoutFires ==
    /\ pairing.phase = "running"
    /\ pairing.timeout_pending
    /\ pairing' = TimeoutBody(pairing)
    /\ PairFrame

\* loop.run() returned: sys.exit(1) unless STATE['paired']
PairExit ==
    /\ pairing.phase = "quit"
    /\ pairing' = [pairing EXCEPT !.phase = "exited",
                                  !.exit_status = IF pairing.paired THEN 0 ELSE 1]
    /\ PairFrame

PairNext ==
    \/ PairBegin
    \/ \E path \in PairDevices : KnownAdded(path)
    \/ RunLoop
    \/ \E path \in PairDevices : InterfacesAdded(path)
    \/ IdleRuns
    \/ PairReplyOk
    \/ PairReplyError
    \/ RetryTimer
    \/ \E path \in PairDevices : \E value \in BOOLEAN : PairedChanged(path, value)
    \/ TimeoutFires
    \/ PairExit

PairSpec == PairInit /\ [][PairNext]_vars

\* the main thread runs on, the main loop dispatches a timer that is due, and
\* the process ends when loop.run() has returned
PairFairSpec ==
    /\ PairSpec
    /\ WF_vars(PairBegin)
    /\ WF_vars(\E path \in PairDevices : KnownAdded(path))
    /\ WF_vars(RunLoop)
    /\ WF_vars(TimeoutFires)
    /\ WF_vars(PairExit)

\* C37: in any run the adapter is power-cycled at most once, whatever the number
\* and order of matching device-added events.
C37_PowerCycledAtMostOnce ==
    pairing # NoPairing => pairing.cycles <= 1

\* C38: Pair() is never issued before the adapter power cycle was performed,
\* never once the device is paired, and only when no Pair() call is in flight;
\* at most one call is in flight at any time and every call but the last one
\* issued has reported an error.
C38_PairIssuedInOrder ==
    [][pairing # NoPairing =>
          /\ pairing'.pair_calls > pairing.pair_calls =>
                /\ pairing.cycles >= 1 /\ pairing.power_cycled
                /\ ~pairing.paired
                /\ pairing.in_flight = 0
                /\ pairing.errors = pairing.pair_calls
          /\ pairing'.in_flight <= 1]_vars

\* C38 witness: a second Pair() call is in flight after the first one reported
\* an error, while a device-added event of another matching device was handled.
C38_Witness ==
    /\ pairing # NoPairing
    /\ pairing.pair_calls = 2 /\ pairing.errors = 1 /\ pairing.in_flight = 1
    /\ pairing.added >= 1 /\ pairing.retry_timers = 1

\* C39: a run in which every Pair() call fails issues the initial call and one
\* retry, and no further Pair() call.
C39_OneRetry ==
    (pairing # NoPairing /\ pairing.errors + pairing.in_flight = pairing.pair_calls)
       => pairing.pair_calls <= 2

====
